---------------------------- MODULE Spec2Model ----------------------------
(***************************************************************************)
(* Job orchestration of the AI test case generator (Forge app):            *)
(*   AITestAgent/src/api/testCaseApi.js  startTestCaseGenerationJob,       *)
(*                                       getJobStatus,                     *)
(*                                       generateTestCasesAsync,           *)
(*                                       generateDirectTestCases           *)
(*   AITestAgent/src/api/storage.js      storeJob, getJob, updateJob,      *)
(*                                       deleteJob, cleanupOldJobs         *)
(*                                                                         *)
(* Every `await` of the JavaScript code is a step boundary: one action     *)
(* applies the awaited operation (a store read or write, the fetch, ...)   *)
(* and runs the synchronous continuation up to the next `await`.  The      *)
(* actions of different async functions interleave freely, as the Forge    *)
(* runtime interleaves their continuations.                                *)
(*                                                                         *)
(* Optional fields of JavaScript objects are sets: {} when the key is      *)
(* absent, {v} when it is present with value v.                            *)
(***************************************************************************)
EXTENDS Integers, Sequences, FiniteSets, TLC

(***************************************************************************)
(* Bounds of the model.                                                    *)
(***************************************************************************)
MaxTicks == 3         \* the clock runs from 0 to MaxTicks * TickMs
TickMs == 30000       \* granularity of the clock, in milliseconds
MaxStoreFaults == 2   \* errors the job store raises in one behaviour

(***************************************************************************)
(* Program constants.                                                      *)
(***************************************************************************)
JobTimeoutMs == 60000     \* testCaseApi.js:78
CallTimeoutMs == 45000    \* testCaseApi.js:350
MaxKeptJobs == 10         \* testCaseApi.js:247

\* the job ids of a behaviour: the last one is never handed out, it is
\* the id of a job that does not exist
JobIds == {1, 2}

\* the job ids of a behaviour that starts one job more than cleanupOldJobs
\* is asked to keep
RetentionJobIds == 1 .. (MaxKeptJobs + 2)

Undefined == "<undefined>"
Absent == {}
Terminal == {"completed", "failed"}

(***************************************************************************)
(* Payloads handed to startTestCaseGenerationJob.                          *)
(***************************************************************************)
Payloads ==
  [description : {Undefined, "", "User login"},
   acceptance_criteria : {Undefined, "", "- User sees error",
                          "- User is redirected"}]

Falsy(v) == v \in {Undefined, ""}

(***************************************************************************)
(* Results.  A result is a tuple whose head names where it comes from.     *)
(***************************************************************************)
\* generateFallbackTestCases(payload): a function of the payload only
generateFallbackTestCases(payload) ==
  <<"fallback", payload.description, payload.acceptance_criteria>>

\* the canned value generateDirectTestCases returns from its catch block,
\* its description holds the message of the error caught
CannedError(message) == <<"canned", "Error Generating Test Cases", message>>
\* the canned value returned when the response has no test_cases
CannedFormatError == <<"canned", "API Response Format Error", "">>

\* the test cases a successful generation call returns as text, given by
\* their lines
BackendText ==
  <<"**Test Case 1: Valid login**", "Steps:", "1. Open the login page",
    "- Expected Result: Dashboard is shown">>

\* the text formatJsonTestCases makes of test cases returned as JSON
FormattedText ==
  <<"Test Case 1: Valid login", "Steps:", "1. Open the login page", "",
    "Expected Results:", "- Dashboard is shown">>

StoreErrorMessage == "store error"

(***************************************************************************)
(* Job records as kept in Forge storage.                                   *)
(***************************************************************************)
NoJob ==
  [status |-> "none", payload |-> [description |-> Undefined,
                                   acceptance_criteria |-> Undefined],
   startTime |-> 0, timeoutAt |-> 0, result |-> Absent, timedOut |-> Absent,
   completionTime |-> Absent, error |-> Absent]

\* the object literal of testCaseApi.js:74-79
NewJobData(payload, t) ==
  [status |-> "pending", payload |-> payload,
   startTime |-> t, timeoutAt |-> t + JobTimeoutMs,
   result |-> Absent, timedOut |-> Absent,
   completionTime |-> Absent, error |-> Absent]

VARIABLES
  now,          \* Date.now()
  store,        \* Forge storage: job id -> job record, or NoJob
  storeFaults,  \* number of errors the store has raised so far
  created,      \* number of job ids generated so far
  startPc, startId, startData, startRet,   \* startTestCaseGenerationJob
  pollPc, pollId, pollJob, pollData, pollView,   \* getJobStatus
  lastPoll,     \* the job id and the record read by the last call of
                \* getJobStatus that has returned
  taskPc, taskJob, taskData, taskErr, genOutcome, timer,
                \* generateTestCasesAsync of each job
  parsePc, testCasesString, testCases,
                \* parseTestCases: its argument and the list it returns
  fallbackPayload, fallbackCases,
                \* generateFallbackTestCases: its argument and the test
                \* cases it has pushed
  exportPc, exportArgs, exportResult
                \* a rendering function: the function called, with its
                \* arguments, and what it returns

\* the number of jobs started in a behaviour: all the job ids but the last
MaxJobs == Cardinality(DOMAIN store) - 1

vars == <<now, store, storeFaults, created,
          startPc, startId, startData, startRet,
          pollPc, pollId, pollJob, pollData, pollView, lastPoll,
          taskPc, taskJob, taskData, taskErr, genOutcome, timer,
          parsePc, testCasesString, testCases,
          fallbackPayload, fallbackCases,
          exportPc, exportArgs, exportResult>>

startVars == <<startPc, startId, startData, startRet, created>>
pollVars == <<pollPc, pollId, pollJob, pollData, pollView, lastPoll>>
taskVars == <<taskPc, taskJob, taskData, taskErr, genOutcome, timer>>
fallbackVars == <<fallbackPayload, fallbackCases>>
exportVars == <<exportPc, exportArgs, exportResult>>
parserVars == <<parsePc, testCasesString, testCases, fallbackVars,
                exportVars>>


(***************************************************************************)
(* storage.js: the job store.  A store call either returns or raises; the  *)
(* number of errors raised in one behaviour is bounded.                    *)
(***************************************************************************)
\* storage.set rejects / storage.get rejects: the error is rethrown
StoreRaises ==
  /\ storeFaults < MaxStoreFaults
  /\ storeFaults' = storeFaults + 1

\* storeJob(jobId, jobData): storage.set of the job's key
storeJob(jobId, jobData) == store' = [store EXCEPT ![jobId] = jobData]

\* getJob(jobId): storage.get of the job's key (undefined is NoJob)
getJob(jobId) == store[jobId]

\* updateJob(jobId, jobData): storage.set of the job's key, the whole
\* record is replaced by jobData, whatever the record holds by then
updateJob(jobId, jobData) == store' = [store EXCEPT ![jobId] = jobData]


\* startsWithIsBound with startsWith imported from '@forge/api' next to
\* storage: the query of cleanupOldJobs returns
startsWithIsBound_Imported == TRUE

\* storage.js imports only `storage` from '@forge/api': the identifier
\* startsWith used by cleanupOldJobs is bound nowhere in the module
startsWithIsBound == FALSE

\* the jobs cleanupOldJobs deletes when its query returns: all but the
\* maxJobs records with the greatest startTime
JobsToDelete(maxJobs) ==
  LET jobs == {j \in DOMAIN store : store[j] # NoJob}
      Older(j) == {k \in jobs : \/ store[k].startTime > store[j].startTime
                                \/ /\ store[k].startTime = store[j].startTime
                                   /\ k > j}
  IN {j \in jobs : Cardinality(Older(j)) >= maxJobs}

\* cleanupOldJobs(maxJobs): evaluating startsWith('job_') raises a
\* ReferenceError inside the try block; the catch logs it and returns
cleanupOldJobs(maxJobs) ==
  IF startsWithIsBound
  THEN store' = [j \in DOMAIN store |->
                   IF j \in JobsToDelete(maxJobs) THEN NoJob ELSE store[j]]
  ELSE store' = store

(***************************************************************************)
(* The clock.                                                              *)
(***************************************************************************)
Tick ==
  /\ now < MaxTicks * TickMs
  /\ now' = now + TickMs
  /\ UNCHANGED <<parserVars, store, storeFaults, startVars, pollVars, taskVars>>

(***************************************************************************)
(* startTestCaseGenerationJob(payload)                                     *)
(***************************************************************************)
StartReturned(jobId) ==
  [success |-> TRUE, jobId |-> jobId, threw |-> Absent]

StartThrew(message) ==
  [success |-> FALSE, jobId |-> 0, threw |-> {message}]

NoStart == [success |-> FALSE, jobId |-> 0, threw |-> Absent]

\* MissingRequiredFields with the acceptance criteria not looked at
MissingRequiredFields_DescriptionOnly(payload) == Falsy(payload.description)

\* the validation of testCaseApi.js:66
MissingRequiredFields(payload) ==
  Falsy(payload.description) \/ Falsy(payload.acceptance_criteria)

\* the call up to `await storeJob`: validation, job id, job data; callers
\* call it until MaxJobs jobs are started
StartCall(payload) ==
  /\ startPc = "idle"
  /\ created < MaxJobs
  /\ IF MissingRequiredFields(payload)
     THEN /\ startRet' = StartThrew("Missing required fields")
          /\ UNCHANGED <<startPc, startId, startData, created>>
     ELSE /\ created' = created + 1
          /\ startId' = created + 1
          /\ startData' = NewJobData(payload, now)
          /\ startPc' = "storeJob"
          /\ startRet' = NoStart
  /\ UNCHANGED <<parserVars, now, store, storeFaults, pollVars, taskVars>>

\* SpawnTask with the call awaited: the task has ended when the caller goes on
SpawnTask_Awaited(jobId) == taskPc' = [taskPc EXCEPT ![jobId] = "done"]

\* SpawnTask with the call of generateTestCasesAsync forgotten
SpawnTask_NotCalled(jobId) == UNCHANGED taskPc

\* generateTestCasesAsync(jobId, payload) is called without await: it runs
\* to its first await (getJob) and the caller goes on
SpawnTask(jobId) == taskPc' = [taskPc EXCEPT ![jobId] = "getJob"]

\* storeJob returns: the task is started and the job id is returned
StartStored ==
  /\ startPc = "storeJob"
  /\ storeJob(startId, startData)
  /\ SpawnTask(startId)
  /\ startRet' = StartReturned(startId)
  /\ startPc' = "idle"
  /\ startData' = NoJob
  /\ UNCHANGED <<parserVars, now, storeFaults, startId, created, pollVars,
                 taskJob, taskData, taskErr, genOutcome, timer>>

\* storeJob raises: the error is rethrown to the caller, no task starts
StartStoreFailed ==
  /\ startPc = "storeJob"
  /\ StoreRaises
  /\ startRet' = StartThrew(StoreErrorMessage)
  /\ startPc' = "idle"
  /\ startData' = NoJob
  /\ UNCHANGED <<parserVars, now, store, startId, created, pollVars, taskVars>>

(***************************************************************************)
(* getJobStatus(jobId)                                                     *)
(***************************************************************************)
NoView ==
  [success |-> FALSE, status |-> Absent, result |-> Absent,
   timedOut |-> Absent, error |-> Absent]

\* NotFoundView with an unknown job reported as a job still waiting
NotFoundView_Pending ==
  [success |-> TRUE, status |-> {"pending"}, result |-> Absent,
   timedOut |-> Absent, error |-> Absent]

\* testCaseApi.js:106-109
NotFoundView ==
  [success |-> FALSE, status |-> Absent, result |-> Absent,
   timedOut |-> Absent, error |-> {"Job not found"}]

\* testCaseApi.js:126-131
TimedOutView(fallbackTestCases) ==
  [success |-> TRUE, status |-> {"completed"}, result |-> {fallbackTestCases},
   timedOut |-> {TRUE}, error |-> Absent]

\* CompletedView with the timedOut flag of the record not passed on
CompletedView_FlagDropped(job) ==
  [success |-> TRUE, status |-> {"completed"}, result |-> job.result,
   timedOut |-> {FALSE}, error |-> Absent]

\* testCaseApi.js:136-141, timedOut: job.timedOut || false
CompletedView(job) ==
  [success |-> TRUE, status |-> {"completed"}, result |-> job.result,
   timedOut |-> {job.timedOut # Absent}, error |-> Absent]

\* testCaseApi.js:146-150
FailedView(job) ==
  [success |-> FALSE, status |-> {"failed"}, result |-> Absent,
   timedOut |-> Absent, error |-> job.error]

\* testCaseApi.js:154-157
StatusView(job) ==
  [success |-> TRUE, status |-> {job.status}, result |-> Absent,
   timedOut |-> Absent, error |-> Absent]

\* testCaseApi.js:160-163, the catch block of getJobStatus
ErrorView ==
  [success |-> FALSE, status |-> Absent, result |-> Absent,
   timedOut |-> Absent, error |-> {"Error getting job status"}]

\* JobHasTimedOut with the test of the status forgotten
JobHasTimedOut_AnyStatus(job, t) ==
  /\ job.timeoutAt # 0
  /\ t > job.timeoutAt

\* JobHasTimedOut taken for every job that has not ended, pending or not
JobHasTimedOut_Unfinished(job, t) ==
  /\ job.status \notin Terminal
  /\ job.timeoutAt # 0
  /\ t > job.timeoutAt

\* the condition of testCaseApi.js:113, t is Date.now()
JobHasTimedOut(job, t) ==
  /\ job.status = "processing"
  /\ job.timeoutAt # 0
  /\ t > job.timeoutAt

\* TimeoutUpdate with the timedOut key forgotten
TimeoutUpdate_NoFlag(job, t) ==
  [job EXCEPT !.status = "completed",
              !.result = {generateFallbackTestCases(job.payload)},
              !.completionTime = {t}]

\* the object literal of testCaseApi.js:118-124, t is Date.now()
TimeoutUpdate(job, t) ==
  [job EXCEPT !.status = "completed",
              !.result = {generateFallbackTestCases(job.payload)},
              !.timedOut = {TRUE},
              !.completionTime = {t}]

\* the view of a job that has not timed out, testCaseApi.js:134-157
JobView(job) ==
  IF job.status = "completed" THEN CompletedView(job)
  ELSE IF job.status = "failed" THEN FailedView(job)
  ELSE StatusView(job)

PollCall(jobId) ==
  /\ pollPc = "idle"
  /\ pollId' = jobId
  /\ pollPc' = "getJob"
  /\ UNCHANGED <<parserVars, now, store, storeFaults, startVars, taskVars,
                 pollJob, pollData, pollView, lastPoll>>

PollReturn(job, view) ==
  /\ pollView' = view
  /\ lastPoll' = [id |-> pollId, job |-> job]
  /\ pollPc' = "idle"
  /\ pollJob' = NoJob
  /\ pollData' = NoJob

\* getJob returns: the branches of testCaseApi.js:105-157
PollGotJob ==
  /\ pollPc = "getJob"
  /\ LET job == getJob(pollId) IN
       IF job = NoJob THEN PollReturn(job, NotFoundView)
       ELSE IF JobHasTimedOut(job, now)
       THEN /\ pollJob' = job
            /\ pollData' = TimeoutUpdate(job, now)
            /\ pollPc' = "updateJob"
            /\ UNCHANGED <<pollView, lastPoll>>
       ELSE PollReturn(job, JobView(job))
  /\ UNCHANGED <<parserVars, now, store, storeFaults, startVars, taskVars, pollId>>

\* getJob raises: the catch block returns the error view
PollGetJobFailed ==
  /\ pollPc = "getJob"
  /\ StoreRaises
  /\ PollReturn(NoJob, ErrorView)
  /\ UNCHANGED <<parserVars, now, store, startVars, taskVars, pollId>>

\* updateJob of the timeout branch returns
PollUpdated ==
  /\ pollPc = "updateJob"
  /\ updateJob(pollId, pollData)
  /\ PollReturn(pollJob, TimedOutView(generateFallbackTestCases(pollJob.payload)))
  /\ UNCHANGED <<parserVars, now, storeFaults, startVars, taskVars, pollId>>

\* updateJob of the timeout branch raises
PollUpdateFailed ==
  /\ pollPc = "updateJob"
  /\ StoreRaises
  /\ PollReturn(pollJob, ErrorView)
  /\ UNCHANGED <<parserVars, now, store, startVars, taskVars, pollId>>

(***************************************************************************)
(* generateDirectTestCases(payload), called by the background task         *)
(***************************************************************************)
\* what the request can give when the fetch is not aborted: a network
\* error, a response that is not ok, and the bodies `await response.json()`
\* can give, testCaseApi.js:355-395
Responses ==
  {"text", "json_text", "no_test_cases", "success_false", "bad_body",
   "not_ok", "network_error"}

\* the responses read by `await response.json()`
JsonResponses ==
  {"text", "json_text", "no_test_cases", "success_false", "bad_body"}

\* the value generateDirectTestCases returns for a response, and what the
\* task makes of it at testCaseApi.js:195-209: a string that starts with
\* '{' and parses to an object with test_cases is formatted, anything else
\* is kept as it is
ParsedTestCases(response) ==
  CASE response = "text" -> <<"text", BackendText>>
    [] response = "json_text" -> <<"formatted", FormattedText>>
    [] response = "no_test_cases" -> CannedFormatError
    [] response = "success_false" -> CannedError("API request failed")
    [] response = "bad_body" -> CannedError("Unexpected token")
    [] response = "not_ok" -> CannedError("API request failed: 500")
    [] OTHER -> CannedError("fetch failed")

\* the ways the call fails: a response that is not ok, success:false, a
\* network error, a body that cannot be read, the call's own timeout
GenerationFailures ==
  {"not_ok", "success_false", "network_error", "bad_body", "timeout"}

\* setTimeout(() => controller.abort(), 45000), t is Date.now()
ArmTimer(t) == {t + CallTimeoutMs}

\* the abort timer has fired: fetch rejects with an AbortError
TimerFired(tm, t) == tm # Absent /\ \E d \in tm : t >= d

(***************************************************************************)
(* generateTestCasesAsync(jobId, payload), the background task             *)
(***************************************************************************)

\* ProcessingUpdate with the record written without the deadline of the
\* record read: timeoutAt is not carried over
ProcessingUpdate_NoDeadline(job) ==
  [job EXCEPT !.status = "processing", !.timeoutAt = 0]

\* testCaseApi.js:184-187
ProcessingUpdate(job) == [job EXCEPT !.status = "processing"]

\* CompletedUpdate with the result key forgotten
CompletedUpdate_NoResult(job, parsedTestCases, t) ==
  [job EXCEPT !.status = "completed",
              !.completionTime = {t}]

\* CompletedUpdate with the completionTime key forgotten
CompletedUpdate_NoCompletionTime(job, parsedTestCases, t) ==
  [job EXCEPT !.status = "completed",
              !.result = {parsedTestCases}]

\* testCaseApi.js:212-217, t is Date.now()
CompletedUpdate(job, parsedTestCases, t) ==
  [job EXCEPT !.status = "completed",
              !.result = {parsedTestCases},
              !.completionTime = {t}]

\* FallbackUpdate with the timedOut key forgotten
FallbackUpdate_NoFlag(job, t) ==
  [job EXCEPT !.status = "completed",
              !.result = {generateFallbackTestCases(job.payload)},
              !.completionTime = {t}]

\* testCaseApi.js:232-241, t is Date.now()
FallbackUpdate(job, t) ==
  [job EXCEPT !.status = "completed",
              !.result = {generateFallbackTestCases(job.payload)},
              !.timedOut = {TRUE},
              !.completionTime = {t}]

\* FailedUpdate with the error key forgotten
FailedUpdate_NoMessage(job, message, t) ==
  [job EXCEPT !.status = "failed",
              !.completionTime = {t}]

\* testCaseApi.js:258-263, t is Date.now()
FailedUpdate(job, message, t) ==
  [job EXCEPT !.status = "failed",
              !.error = message,
              !.completionTime = {t}]

TaskGoto(jobId, pc) == taskPc' = [taskPc EXCEPT ![jobId] = pc]

\* the outer catch block, testCaseApi.js:249-254: it calls getJob again
TaskCatch(jobId, message) ==
  /\ TaskGoto(jobId, "catchGetJob")
  /\ taskErr' = [taskErr EXCEPT ![jobId] = {message}]
  /\ taskData' = [taskData EXCEPT ![jobId] = NoJob]
  /\ timer' = [timer EXCEPT ![jobId] = Absent]

\* the task returns
TaskDone(jobId) ==
  /\ TaskGoto(jobId, "done")
  /\ taskJob' = [taskJob EXCEPT ![jobId] = NoJob]
  /\ taskData' = [taskData EXCEPT ![jobId] = NoJob]

\* TaskInnerCatch without the inner try block: the error of the generation
\* call reaches the outer catch block
TaskInnerCatch_Rethrows(jobId) == TaskCatch(jobId, "API request timed out")

\* TaskInnerCatch with the finally block of generateDirectTestCases left
\* out: the abort timer stays armed when the timeout error is raised
TaskInnerCatch_TimerLeftArmed(jobId) ==
  /\ TaskGoto(jobId, "setFallback")
  /\ taskErr' = taskErr
  /\ taskData' = [taskData EXCEPT ![jobId] = FallbackUpdate(taskJob[jobId], now)]
  /\ timer' = timer

\* the inner catch block, testCaseApi.js:228-241: fallback test cases
TaskInnerCatch(jobId) ==
  /\ TaskGoto(jobId, "setFallback")
  /\ taskErr' = taskErr
  /\ taskData' = [taskData EXCEPT ![jobId] = FallbackUpdate(taskJob[jobId], now)]
  /\ timer' = [timer EXCEPT ![jobId] = Absent]

\* generateDirectTestCases has returned testCases: testCaseApi.js:195-217
TaskGenerated(jobId, response) ==
  /\ TaskGoto(jobId, "setCompleted")
  /\ genOutcome' = [genOutcome EXCEPT ![jobId] = response]
  /\ taskData' = [taskData EXCEPT ![jobId] =
                    CompletedUpdate(taskJob[jobId], ParsedTestCases(response), now)]
  /\ timer' = [timer EXCEPT ![jobId] = Absent]

\* getJob of testCaseApi.js:176 returns
TaskGotJob(jobId) ==
  /\ taskPc[jobId] = "getJob"
  /\ LET job == getJob(jobId) IN
       IF job = NoJob
       THEN /\ TaskDone(jobId)
       ELSE /\ taskJob' = [taskJob EXCEPT ![jobId] = job]
            /\ taskData' = [taskData EXCEPT ![jobId] = ProcessingUpdate(job)]
            /\ TaskGoto(jobId, "setProcessing")
  /\ UNCHANGED <<parserVars, now, store, storeFaults, startVars, pollVars,
                 taskErr, genOutcome, timer>>

\* getJob of testCaseApi.js:176 raises
TaskGetJobFailed(jobId) ==
  /\ taskPc[jobId] = "getJob"
  /\ StoreRaises
  /\ TaskCatch(jobId, StoreErrorMessage)
  /\ UNCHANGED <<parserVars, now, store, startVars, pollVars, taskJob, genOutcome>>

\* updateJob of testCaseApi.js:184 returns; generateDirectTestCases is
\* called: it arms the abort timer and awaits the fetch
TaskSetProcessing(jobId) ==
  /\ taskPc[jobId] = "setProcessing"
  /\ updateJob(jobId, taskData[jobId])
  /\ TaskGoto(jobId, "fetch")
  /\ timer' = [timer EXCEPT ![jobId] = ArmTimer(now)]
  /\ taskData' = [taskData EXCEPT ![jobId] = NoJob]
  /\ UNCHANGED <<parserVars, now, storeFaults, startVars, pollVars,
                 taskJob, taskErr, genOutcome>>

\* updateJob of testCaseApi.js:184 raises
TaskSetProcessingFailed(jobId) ==
  /\ taskPc[jobId] = "setProcessing"
  /\ StoreRaises
  /\ TaskCatch(jobId, StoreErrorMessage)
  /\ UNCHANGED <<parserVars, now, store, startVars, pollVars, taskJob, genOutcome>>

\* the fetch resolves before the timer fires: clearTimeout, then
\* `await response.text()` (not ok) or `await response.json()` (ok)
TaskFetchResponded(jobId, ok) ==
  /\ taskPc[jobId] = "fetch"
  /\ ~TimerFired(timer[jobId], now)
  /\ TaskGoto(jobId, IF ok THEN "json" ELSE "text")
  /\ timer' = [timer EXCEPT ![jobId] = Absent]
  /\ UNCHANGED <<parserVars, now, store, storeFaults, startVars, pollVars,
                 taskJob, taskData, taskErr, genOutcome>>

\* TaskFetchRejected with the catch block of generateDirectTestCases
\* rethrowing every error, not only the AbortError
TaskFetchRejected_Rethrows(jobId) ==
  /\ taskPc[jobId] = "fetch"
  /\ ~TimerFired(timer[jobId], now)
  /\ genOutcome' = [genOutcome EXCEPT ![jobId] = "network_error"]
  /\ TaskInnerCatch(jobId)
  /\ UNCHANGED <<parserVars, now, store, storeFaults, startVars, pollVars, taskJob>>

\* the fetch rejects before the timer fires (network error): the catch
\* block of generateDirectTestCases returns the canned value
TaskFetchRejected(jobId) ==
  /\ taskPc[jobId] = "fetch"
  /\ ~TimerFired(timer[jobId], now)
  /\ TaskGenerated(jobId, "network_error")
  /\ UNCHANGED <<parserVars, now, store, storeFaults, startVars, pollVars,
                 taskJob, taskErr>>

\* the timer fires and aborts the fetch: generateDirectTestCases throws
\* 'API request timed out', the task's inner catch block takes over
TaskFetchAborted(jobId) ==
  /\ taskPc[jobId] = "fetch"
  /\ TimerFired(timer[jobId], now)
  /\ genOutcome' = [genOutcome EXCEPT ![jobId] = "timeout"]
  /\ TaskInnerCatch(jobId)
  /\ UNCHANGED <<parserVars, now, store, storeFaults, startVars, pollVars, taskJob>>

\* `await response.text()` of a response that is not ok ends: the error
\* thrown at testCaseApi.js:370 is caught, the canned value is returned
TaskResponseText(jobId) ==
  /\ taskPc[jobId] = "text"
  /\ TaskGenerated(jobId, "not_ok")
  /\ UNCHANGED <<parserVars, now, store, storeFaults, startVars, pollVars,
                 taskJob, taskErr>>

\* `await response.json()` ends
TaskResponseJson(jobId, response) ==
  /\ taskPc[jobId] = "json"
  /\ TaskGenerated(jobId, response)
  /\ UNCHANGED <<parserVars, now, store, storeFaults, startVars, pollVars,
                 taskJob, taskErr>>

\* updateJob of testCaseApi.js:212 returns; updateTokenUsageStats is awaited
TaskSetCompleted(jobId) ==
  /\ taskPc[jobId] = "setCompleted"
  /\ updateJob(jobId, taskData[jobId])
  /\ TaskGoto(jobId, "tokenStats")
  /\ taskData' = [taskData EXCEPT ![jobId] = NoJob]
  /\ UNCHANGED <<parserVars, now, storeFaults, startVars, pollVars,
                 taskJob, taskErr, genOutcome, timer>>

\* updateJob of testCaseApi.js:212 raises inside the inner try block
TaskSetCompletedFailed(jobId) ==
  /\ taskPc[jobId] = "setCompleted"
  /\ StoreRaises
  /\ TaskInnerCatch(jobId)
  /\ UNCHANGED <<parserVars, now, store, startVars, pollVars, taskJob, genOutcome>>

\* updateTokenUsageStats ends (it catches its own errors); cleanupOldJobs
\* is awaited
TaskTokenStats(jobId) ==
  /\ taskPc[jobId] = "tokenStats"
  /\ TaskGoto(jobId, "cleanup")
  /\ UNCHANGED <<parserVars, now, store, storeFaults, startVars, pollVars,
                 taskJob, taskData, taskErr, genOutcome, timer>>

\* updateJob of testCaseApi.js:235 returns; cleanupOldJobs is awaited
TaskSetFallback(jobId) ==
  /\ taskPc[jobId] = "setFallback"
  /\ updateJob(jobId, taskData[jobId])
  /\ TaskGoto(jobId, "cleanup")
  /\ taskData' = [taskData EXCEPT ![jobId] = NoJob]
  /\ UNCHANGED <<parserVars, now, storeFaults, startVars, pollVars,
                 taskJob, taskErr, genOutcome, timer>>

\* updateJob of testCaseApi.js:235 raises: the outer catch block
TaskSetFallbackFailed(jobId) ==
  /\ taskPc[jobId] = "setFallback"
  /\ StoreRaises
  /\ TaskCatch(jobId, StoreErrorMessage)
  /\ UNCHANGED <<parserVars, now, store, startVars, pollVars, taskJob, genOutcome>>

\* TaskCleanup with the error of cleanupOldJobs rethrown by its catch block:
\* it reaches the outer catch block of the task
TaskCleanup_Rethrows(jobId) ==
  /\ taskPc[jobId] = "cleanup"
  /\ TaskCatch(jobId, "startsWith is not defined")
  /\ UNCHANGED <<parserVars, now, store, storeFaults, startVars, pollVars,
                 taskJob, genOutcome>>

\* cleanupOldJobs(10) ends; the task returns
TaskCleanup(jobId) ==
  /\ taskPc[jobId] = "cleanup"
  /\ cleanupOldJobs(MaxKeptJobs)
  /\ TaskDone(jobId)
  /\ UNCHANGED <<parserVars, now, storeFaults, startVars, pollVars,
                 taskErr, genOutcome, timer>>

\* getJob of testCaseApi.js:254 returns
TaskCatchGotJob(jobId) ==
  /\ taskPc[jobId] = "catchGetJob"
  /\ LET job == getJob(jobId) IN
       IF job = NoJob
       THEN TaskDone(jobId)
       ELSE /\ taskJob' = [taskJob EXCEPT ![jobId] = job]
            /\ taskData' = [taskData EXCEPT ![jobId] =
                              FailedUpdate(job, taskErr[jobId], now)]
            /\ TaskGoto(jobId, "setFailed")
  /\ UNCHANGED <<parserVars, now, store, storeFaults, startVars, pollVars,
                 taskErr, genOutcome, timer>>

\* getJob of testCaseApi.js:254 raises: caught at testCaseApi.js:265
TaskCatchGetJobFailed(jobId) ==
  /\ taskPc[jobId] = "catchGetJob"
  /\ StoreRaises
  /\ TaskDone(jobId)
  /\ UNCHANGED <<parserVars, now, store, startVars, pollVars,
                 taskErr, genOutcome, timer>>

\* updateJob of testCaseApi.js:258 returns
TaskSetFailed(jobId) ==
  /\ taskPc[jobId] = "setFailed"
  /\ updateJob(jobId, taskData[jobId])
  /\ TaskDone(jobId)
  /\ UNCHANGED <<parserVars, now, storeFaults, startVars, pollVars,
                 taskErr, genOutcome, timer>>

\* updateJob of testCaseApi.js:258 raises: caught at testCaseApi.js:265
TaskSetFailedFailed(jobId) ==
  /\ taskPc[jobId] = "setFailed"
  /\ StoreRaises
  /\ TaskDone(jobId)
  /\ UNCHANGED <<parserVars, now, store, startVars, pollVars,
                 taskErr, genOutcome, timer>>

(***************************************************************************)
(* The specification.                                                      *)
(***************************************************************************)
InitWith(jobIds) ==
  /\ now = 0
  /\ store = [j \in jobIds |-> NoJob]
  /\ storeFaults = 0
  /\ created = 0
  /\ startPc = "idle"
  /\ startId = 0
  /\ startData = NoJob
  /\ startRet = NoStart
  /\ pollPc = "idle"
  /\ pollId = 0
  /\ pollJob = NoJob
  /\ pollData = NoJob
  /\ pollView = NoView
  /\ lastPoll = [id |-> 0, job |-> NoJob]
  /\ taskPc = [j \in jobIds |-> "none"]
  /\ taskJob = [j \in jobIds |-> NoJob]
  /\ taskData = [j \in jobIds |-> NoJob]
  /\ taskErr = [j \in jobIds |-> Absent]
  /\ genOutcome = [j \in jobIds |-> "none"]
  /\ timer = [j \in jobIds |-> Absent]

\* parseTestCases is not called
ParserIdle ==
  /\ parsePc = "idle"
  /\ testCasesString = <<"">>
  /\ testCases = <<>>

\* generateFallbackTestCases is not called on its own
FallbackIdle ==
  /\ fallbackPayload = [description |-> Undefined,
                        acceptance_criteria |-> <<"">>]
  /\ fallbackCases = <<>>

\* no rendering function is called
ExportIdle ==
  /\ exportPc = "idle"
  /\ exportArgs = [fn |-> "none", testCases |-> <<"undefined">>,
                   format |-> "markdown"]
  /\ exportResult = <<>>

Init == InitWith(JobIds) /\ ParserIdle /\ FallbackIdle /\ ExportIdle

Start ==
  \/ \E payload \in Payloads : StartCall(payload)
  \/ StartStored
  \/ StartStoreFailed

Poll ==
  \/ \E jobId \in JobIds : PollCall(jobId)
  \/ PollGotJob
  \/ PollGetJobFailed
  \/ PollUpdated
  \/ PollUpdateFailed

Task ==
  \E jobId \in JobIds :
    \/ TaskGotJob(jobId)
    \/ TaskGetJobFailed(jobId)
    \/ TaskSetProcessing(jobId)
    \/ TaskSetProcessingFailed(jobId)
    \/ \E ok \in BOOLEAN : TaskFetchResponded(jobId, ok)
    \/ TaskFetchRejected(jobId)
    \/ TaskFetchAborted(jobId)
    \/ TaskResponseText(jobId)
    \/ \E response \in JsonResponses : TaskResponseJson(jobId, response)
    \/ TaskSetCompleted(jobId)
    \/ TaskSetCompletedFailed(jobId)
    \/ TaskTokenStats(jobId)
    \/ TaskSetFallback(jobId)
    \/ TaskSetFallbackFailed(jobId)
    \/ TaskCleanup(jobId)
    \/ TaskCatchGotJob(jobId)
    \/ TaskCatchGetJobFailed(jobId)
    \/ TaskSetFailed(jobId)
    \/ TaskSetFailedFailed(jobId)

Next == Tick \/ Start \/ Poll \/ Task

Spec == Init /\ [][Next]_vars

(***************************************************************************)
(* Retention: jobs started one after the other, each run to its end with   *)
(* a generation call that succeeds and a job store that raises nothing,    *)
(* one job more than cleanupOldJobs(10) is asked to keep.                  *)
(***************************************************************************)
RetentionInit ==
  InitWith(RetentionJobIds) /\ ParserIdle /\ FallbackIdle /\ ExportIdle

RetentionPayload ==
  [description |-> "User login", acceptance_criteria |-> "- User sees error"]

\* the caller starts a job once the task of the job before has ended
RetentionStart ==
  /\ \A j \in DOMAIN store : taskPc[j] \in {"none", "done"}
  /\ StartCall(RetentionPayload)

RetentionTask ==
  \E jobId \in RetentionJobIds :
    \/ TaskGotJob(jobId)
    \/ TaskSetProcessing(jobId)
    \/ TaskFetchResponded(jobId, TRUE)
    \/ TaskResponseJson(jobId, "text")
    \/ TaskSetCompleted(jobId)
    \/ TaskTokenStats(jobId)
    \/ TaskCleanup(jobId)

RetentionNext == Tick \/ RetentionStart \/ StartStored \/ RetentionTask

RetentionSpec == RetentionInit /\ [][RetentionNext]_vars

(***************************************************************************)
(* A job that stays in flight while others come and go: the request of the *)
(* first job gets no response before its abort timer fires; meanwhile one  *)
(* job more than cleanupOldJobs(10) is asked to keep is started and        *)
(* completes, one after the other, and the caller polls the first job.     *)
(* The later jobs are quick: the clock stands still from the start of the  *)
(* second job to the start of the last one.                                *)
(***************************************************************************)
BacklogJobIds == 1 .. (MaxKeptJobs + 3)

\* the job whose request stays pending: the first one started
SlowJob == CHOOSE j \in BacklogJobIds : \A k \in BacklogJobIds : j <= k

BacklogInit ==
  InitWith(BacklogJobIds) /\ ParserIdle /\ FallbackIdle /\ ExportIdle

\* the caller starts a job once the task of the job before has ended,
\* whatever the slow job does
BacklogStart ==
  /\ \A j \in DOMAIN store \ {SlowJob} : taskPc[j] \in {"none", "done"}
  /\ StartCall(RetentionPayload)

BacklogTick ==
  /\ created \in {0, 1, MaxJobs}
  /\ Tick

BacklogSlowTask ==
  \/ TaskGotJob(SlowJob)
  \/ TaskSetProcessing(SlowJob)
  \/ TaskFetchAborted(SlowJob)
  \/ TaskSetFallback(SlowJob)
  \/ TaskCleanup(SlowJob)

BacklogTask ==
  \E jobId \in BacklogJobIds \ {SlowJob} :
    \/ TaskGotJob(jobId)
    \/ TaskSetProcessing(jobId)
    \/ TaskFetchResponded(jobId, TRUE)
    \/ TaskResponseJson(jobId, "text")
    \/ TaskSetCompleted(jobId)
    \/ TaskTokenStats(jobId)
    \/ TaskCleanup(jobId)

BacklogPoll == PollCall(SlowJob) \/ PollGotJob \/ PollUpdated

BacklogNext ==
  BacklogTick \/ BacklogStart \/ StartStored \/ BacklogSlowTask \/ BacklogTask
    \/ BacklogPoll

BacklogSpec == BacklogInit /\ [][BacklogNext]_vars

(***************************************************************************)
(* generateFallbackTestCases(payload) as text (testCaseApi.js:420-502).    *)
(*                                                                         *)
(* The acceptance criteria are the sequence of their lines.  The lines     *)
(* drawn here are of the kinds the line filter tells apart; the lines that *)
(* survive it start with a bullet and with two keywords, so that the two   *)
(* keywords the text is built from never hold the end of a line.           *)
(***************************************************************************)
MaxCriteria == 2    \* the acceptance criteria have at most MaxCriteria lines

CriteriaLines ==
  {"", "-", "* ", "--", "- a",
   "- User sees error", "- Account gets locked after attempts"}

Descriptions == {Undefined, "", "User login page"}

FallbackPayloads ==
  [description : Descriptions,
   acceptance_criteria :
     UNION {[1 .. n -> CriteriaLines] : n \in 1 .. MaxCriteria}]

\* line.trim()
TrimLine(l) == IF l = "* " THEN "*" ELSE l

\* line.match(/[a-zA-Z0-9]/)
HasAlphanumeric(l) ==
  l \in {"- a", "- User sees error", "- Account gets locked after attempts",
         "User login page"}

\* line.startsWith('-') || line.startsWith('*') || line.startsWith(U+2022)
StartsWithBullet(l) == l \notin {"", "User login page"}

\* the filter of testCaseApi.js:457-471, on a trimmed line; no line here is
\* or starts with the bullet U+2022
KeepsCriteriaLine(line) ==
  /\ line # ""
  /\ line \notin {"-", "*", ">", "#"}
  /\ ~(Len(line) <= 2 /\ ~HasAlphanumeric(line))
  /\ ~(StartsWithBullet(line) /\ Len(line) <= 3)

\* acLines, testCaseApi.js:455-471
CriteriaLinesKept(acceptanceCriteria) ==
  SelectSeq([n \in 1 .. Len(acceptanceCriteria) |->
               TrimLine(acceptanceCriteria[n])],
            KeepsCriteriaLine)

\* the words of a line in lower case, without the punctuation that
\* extractKeywords removes (testCaseApi.js:509-514)
Words(l) ==
  CASE l = "User login page" -> <<"user", "login", "page">>
    [] l = "- User sees error" -> <<"user", "sees", "error">>
    [] l = "- Account gets locked after attempts" ->
         <<"account", "gets", "locked", "after", "attempts">>
    [] l = "- a" -> <<"a">>
    [] OTHER -> <<>>

\* those of the commonWords of testCaseApi.js:517-525 that have more than
\* three letters
commonWords ==
  {"been", "being", "with", "about", "against", "between", "into",
   "through", "during", "before", "after", "above", "below", "from",
   "down", "over", "under", "again", "further", "then", "once", "here",
   "there", "when", "where", "each", "more", "most", "other", "some",
   "such", "only", "same", "than", "very", "will", "just", "should",
   "that", "this", "these", "those"}

\* [...new Set(keywords)]: the first occurrence of each word
RECURSIVE Unique(_)
Unique(ws) ==
  IF ws = <<>> THEN <<>>
  ELSE LET init == Unique(SubSeq(ws, 1, Len(ws) - 1))
           w == ws[Len(ws)]
       IN IF \E i \in 1 .. Len(init) : init[i] = w THEN init
          ELSE Append(init, w)

\* extractKeywords(text), on the words of the text
extractKeywords(words) ==
  Unique(SelectSeq(words, LAMBDA w : Len(w) > 3 /\ w \notin commonWords))

\* the words of a text given by its lines
RECURSIVE WordsOf(_)
WordsOf(ls) ==
  IF ls = <<>> THEN <<>> ELSE Words(Head(ls)) \o WordsOf(Tail(ls))

\* keywords[n] || otherwise
KeywordOr(keywords, n, otherwise) ==
  IF Len(keywords) >= n THEN keywords[n] ELSE otherwise

\* line.split(' ').slice(-3).join(' ')
LastThreeWords(line) ==
  CASE line = "- User sees error" -> "User sees error"
    [] line = "- Account gets locked after attempts" ->
         "locked after attempts"
    [] OTHER -> line

\* a numbered line of a template
Numbered(n, body) == ToString(n) \o ". " \o body

\* the steps of the first test case, without their numbers
BasicSteps(feature, functionality) ==
  <<"Log in to the system as a user with appropriate permissions",
    "Navigate to the " \o feature \o " section",
    "Verify that the " \o functionality \o " is available",
    "Attempt to use the " \o feature \o " with valid inputs",
    "Verify the results match the expected behavior">>

\* the steps of the test case of an acceptance criteria line
CriteriaSteps(line, acFeature) ==
  <<"Log in to the system as a user with appropriate permissions",
    "Navigate to the " \o acFeature \o " section",
    "Set up the test conditions for testing \"" \o line \o "\"",
    "Perform the actions necessary to test this specific acceptance criteria",
    "Verify that the " \o acFeature \o " behaves as expected">>

NumberedSteps(steps) == [n \in 1 .. Len(steps) |-> Numbered(n, steps[n])]

\* the first test case, testCaseApi.js:438-452; the template ends with a
\* line feed, so its last line is empty
BasicTitle(feature) == "1: Verify " \o feature \o " Basic Functionality"

BasicTestCase(feature, functionality) ==
  <<"Test Case " \o BasicTitle(feature),
    "Description: This test case verifies the basic functionality described in the user story.",
    "",
    "Steps:">>
  \o NumberedSteps(BasicSteps(feature, functionality))
  \o <<"",
       "Expected Results:",
       "- The " \o feature \o " is accessible to authorized users",
       "- The " \o functionality \o " works as described in the user story",
       "- The system displays appropriate feedback after the action is completed",
       "">>

\* the test case of the acceptance criteria line of a given index (from 0),
\* testCaseApi.js:474-498; the template starts and ends with a line feed
AcFeature(line, feature) ==
  KeywordOr(extractKeywords(Words(line)), 1, feature)

CriteriaTitle(line, index, feature) ==
  LET condition == KeywordOr(extractKeywords(Words(line)), 2, "condition")
      behavior == LastThreeWords(line)
      testCaseTitle == "Verify " \o AcFeature(line, feature) \o " "
                         \o condition \o " " \o behavior
  IN ToString(index + 2) \o ": " \o testCaseTitle

CriteriaTestCase(line, index, feature) ==
  LET acFeature == AcFeature(line, feature)
  IN <<"",
       "Test Case " \o CriteriaTitle(line, index, feature),
       "Description: This test case verifies the acceptance criteria: \""
         \o line \o "\"",
       "",
       "Steps:">>
     \o NumberedSteps(CriteriaSteps(line, acFeature))
     \o <<"",
          "Expected Results:",
          "- The acceptance criteria \"" \o line \o "\" is fully satisfied",
          "- The " \o acFeature \o " behaves correctly under the test conditions",
          "- The system provides appropriate feedback or results",
          "">>

\* payload.description || ''
DescriptionOf(payload) ==
  IF Falsy(payload.description) THEN "" ELSE payload.description

\* extractKeywords(description + ' ' + acceptanceCriteria)
PayloadKeywords(payload) ==
  extractKeywords(Words(DescriptionOf(payload))
                    \o WordsOf(payload.acceptance_criteria))

\* keywords[0] || 'feature'
FeatureOf(payload) == KeywordOr(PayloadKeywords(payload), 1, "feature")

\* keywords[1] || 'functionality'
FunctionalityOf(payload) ==
  KeywordOr(PayloadKeywords(payload), 2, "functionality")

\* the array testCases of generateFallbackTestCases when it returns
FallbackTestCases(payload) ==
  LET acLines == CriteriaLinesKept(payload.acceptance_criteria)
  IN <<BasicTestCase(FeatureOf(payload), FunctionalityOf(payload))>>
       \o [n \in 1 .. Len(acLines) |->
             CriteriaTestCase(acLines[n], n - 1, FeatureOf(payload))]

\* testCases.join('\n'): the lines of the joined text are the lines of its
\* pieces, one piece after the other
RECURSIVE JoinLines(_)
JoinLines(pieces) ==
  IF pieces = <<>> THEN <<>> ELSE Head(pieces) \o JoinLines(Tail(pieces))

\* the text generateFallbackTestCases(payload) returns
FallbackText(payload) == JoinLines(FallbackTestCases(payload))

\* the numbered lines of the texts generateFallbackTestCases returns, each
\* with what follows its number
FallbackNumbered ==
  LET StepsOf(p) ==
        {BasicSteps(FeatureOf(p), FunctionalityOf(p))}
          \cup {CriteriaSteps(line, AcFeature(line, FeatureOf(p))) :
                  line \in {TrimLine(l) : l \in CriteriaLines}}
  IN UNION {{<<Numbered(n, steps[n]), steps[n]>> : n \in 1 .. Len(steps)} :
              steps \in UNION {StepsOf(p) : p \in FallbackPayloads}}

\* the title lines of these texts, each with what follows 'Test Case '
FallbackTitled ==
  LET TitlesOf(p) ==
        {BasicTitle(FeatureOf(p))}
          \cup {CriteriaTitle(TrimLine(l), index, FeatureOf(p)) :
                  l \in CriteriaLines, index \in 0 .. MaxCriteria - 1}
  IN {<<"Test Case " \o t, t>> : t \in UNION {TitlesOf(p) : p \in FallbackPayloads}}

\* the second component of the pair of a table whose first component is l
Lookup(table, l) == (CHOOSE pair \in table : pair[1] = l)[2]

Listed(table, l) == \E pair \in table : pair[1] = l

(***************************************************************************)
(* utils/testCaseParser.js: parseTestCases and its three strategies.       *)
(*                                                                         *)
(* A text is the sequence of its lines (the text split at '\n'); the empty *)
(* string is the text of one empty line.  The regular expressions of the   *)
(* parser are modelled by what they match on the lines below and on the    *)
(* pieces of these lines that the parser cuts out.                         *)
(***************************************************************************)
MaxLines == 3     \* the texts parsed have at most MaxLines lines

Lines ==
  {"",
   "Here are the test cases:",
   "The login page loads quickly.",
   "# Login tests",
   "**Test Case 1: Valid login**",
   "## Test Case 2: Invalid login",
   "Test Case 1: Valid login",
   "1. Title: Valid login",
   "2. Title: **Locked account**",
   "- Steps:",
   "Steps:",
   "1. Open the login page",
   "- Expected Result: Dashboard is shown",
   "Expected Results:",
   "- Dashboard is shown"}

Texts == UNION {[1 .. n -> Lines] : n \in 1 .. MaxLines}

MinOf(S) == CHOOSE i \in S : \A k \in S : i <= k
MaxOf(S) == CHOOSE i \in S : \A k \in S : i >= k

\* String.prototype.trim of a text: the empty lines at both ends go
Trim(ls) ==
  LET nb == {i \in 1 .. Len(ls) : ls[i] # ""}
  IN IF nb = {} THEN <<>> ELSE SubSeq(ls, MinOf(nb), MaxOf(nb))

\* .split('\n').map(line => line.trim()).filter(line => line)
NonEmptyLines(ls) == SelectSeq(ls, LAMBDA l : l # "")

\* the index of the first line of ls from index from on that is in set S,
\* Len(ls) + 1 when there is none
FirstIn(ls, from, S) ==
  LET found == {i \in from .. Len(ls) : ls[i] \in S}
  IN IF found = {} THEN Len(ls) + 1 ELSE MinOf(found)

\* the lines /\*\*Test Case|\d+\.\s*Title:/ matches in (testCaseParser.js:70)
IntroEnds ==
  {"**Test Case 1: Valid login**", "1. Title: Valid login",
   "2. Title: **Locked account**"}

\* the lines that hold a match of the separator of testCaseParser.js:73,
\* /\*\*Test Case \d+:|##\s*Test Case \d+:|^\d+\.\s*Title:/m
Separators ==
  {"**Test Case 1: Valid login**", "## Test Case 2: Invalid login",
   "1. Title: Valid login", "2. Title: **Locked account**"}

\* what is left of a separator line after the separator, trimmed
AfterSeparator(l) ==
  CASE l = "**Test Case 1: Valid login**" -> "Valid login**"
    [] l = "## Test Case 2: Invalid login" -> "Invalid login"
    [] l = "1. Title: Valid login" -> "Valid login"
    [] l = "2. Title: **Locked account**" -> "**Locked account**"
    [] OTHER -> l

\* the title of a block whose first line is l, testCaseParser.js:84-91:
\* /^([^*#\n]+)(?:\*\*|\n|$)/, then a leading number and 'Title:' removed
MarkdownTitle(l) ==
  CASE l = "Valid login**" -> "Valid login"
    [] l = "**Locked account**" -> ""
    [] l = "# Login tests" -> ""
    [] l = "1. Open the login page" -> "Open the login page"
    [] OTHER -> l

\* the lines /(?:Test Steps?|Steps?):?/i matches in; nothing follows the
\* match on these lines
StepsLabels == {"- Steps:", "Steps:"}

\* the lines /^(?:Test Steps?|Steps?):?$/i matches
StepsLabelOnly == {"Steps:"}

\* the lines /Expected Result/i matches in
ExpectedLabels == {"- Expected Result: Dashboard is shown", "Expected Results:"}

\* the lines /^Expected Result:?$/i matches
ExpectedLabelOnly == {"Expected Result:", "Expected Result"}

\* what stands before 'Expected Result' on a line, trimmed
BeforeExpected(l) ==
  IF l = "- Expected Result: Dashboard is shown" THEN "-" ELSE ""

\* what stands after /Expected Result:?\s*/ on a line
AfterExpected(l) ==
  CASE l = "- Expected Result: Dashboard is shown" -> "Dashboard is shown"
    [] l = "Expected Results:" -> "s:"
    [] OTHER -> l

\* line.replace(/^[•\-\*\t\d]+[\.\)]\s*/, '')
CleanStep(l) ==
  CASE Listed(FallbackNumbered, l) -> Lookup(FallbackNumbered, l)
    [] l = "1. Open the login page" -> "Open the login page"
    [] l = "1. Title: Valid login" -> "Title: Valid login"
    [] l = "2. Title: **Locked account**" -> "Title: **Locked account**"
    [] OTHER -> l

\* the lines that start with /\d+\./ or with '**': after an empty line they
\* end the expected result of testCaseParser.js:112
ResultEnds ==
  {"1. Open the login page", "1. Title: Valid login",
   "2. Title: **Locked account**", "**Test Case 1: Valid login**"}
    \cup {pair[1] : pair \in FallbackNumbered}

\* a parsed test case, testCaseParser.js:43-47; expectedResult is a string,
\* kept as the sequence of its lines ('' has no line)
TestCase(title, steps, expectedResult) ==
  [title |-> title, steps |-> steps, expectedResult |-> expectedResult]

\* the steps of a block, testCaseParser.js:95-108 and 163-170: the lines
\* between the first steps label and the next 'Expected Result'
StepLines(block) ==
  LET s == FirstIn(block, 1, StepsLabels)
      e == FirstIn(block, s + 1, ExpectedLabels)
      captured == SubSeq(block, s + 1, e - 1)
                    \o (IF e <= Len(block) THEN <<BeforeExpected(block[e])>>
                        ELSE <<>>)
      stepLines == SelectSeq(captured,
                             LAMBDA l : l # "" /\ l \notin StepsLabelOnly)
  IN IF s > Len(block) THEN <<>>
     ELSE [n \in 1 .. Len(stepLines) |-> CleanStep(stepLines[n])]

\* the last line of the expected result that starts on line x of a block,
\* testCaseParser.js:112: it ends before an empty line that is followed by
\* a numbered line or a line in bold
ResultEnd(block, x) ==
  LET NextLine(i) == FirstIn(block, i + 1, Lines \ {""})
      ends == {i \in x .. Len(block) - 1 :
                 /\ block[i + 1] = ""
                 /\ NextLine(i) <= Len(block)
                 /\ block[NextLine(i)] \in ResultEnds}
  IN IF ends = {} THEN Len(block) ELSE MinOf(ends)

\* testCaseParser.js:82-119, the test case of one block
MarkdownTestCase(block) ==
  LET x == FirstIn(block, 1, ExpectedLabels)
      captured == <<AfterExpected(block[x])>>
                    \o SubSeq(block, x + 1, ResultEnd(block, x))
  IN TestCase(MarkdownTitle(block[1]),
              SelectSeq(StepLines(block), LAMBDA l : l # ""),
              IF x > Len(block) THEN <<>>
              ELSE SelectSeq(captured,
                             LAMBDA l : l # "" /\ l \notin ExpectedLabelOnly))

\* parseMarkdownTestCases(testCasesString)
parseMarkdownTestCases(text) ==
  LET start == FirstIn(text, 1, IntroEnds)
      cleanedString == IF start > Len(text) THEN text
                       ELSE SubSeq(text, start, Len(text))
      seps == {i \in 1 .. Len(cleanedString) : cleanedString[i] \in Separators}
      NextSep(i) == FirstIn(cleanedString, i + 1, Separators)
      NthSep(n) == CHOOSE h \in seps : Cardinality({k \in seps : k < h}) = n - 1
      BlockAt(h) == <<AfterSeparator(cleanedString[h])>>
                      \o SubSeq(cleanedString, h + 1, NextSep(h) - 1)
      testCaseBlocks ==
        <<SubSeq(cleanedString, 1, NextSep(0) - 1)>>
          \o [n \in 1 .. Cardinality(seps) |-> BlockAt(NthSep(n))]
      trimmed == [n \in 1 .. Len(testCaseBlocks) |-> Trim(testCaseBlocks[n])]
      titled == SelectSeq(trimmed,
                          LAMBDA b : b # <<>> /\ MarkdownTitle(b[1]) # "")
  IN [n \in 1 .. Len(titled) |-> MarkdownTestCase(titled[n])]

\* the lines /\d+\.\s*Title:/ matches in, and the title that follows
StrictTitles == {"1. Title: Valid login", "2. Title: **Locked account**"}

StrictTitle(l) ==
  IF l = "1. Title: Valid login" THEN "Valid login" ELSE "**Locked account**"

\* the lines /\n\s*-\s*(?:Test )?Steps?:/ ends on
StrictStepsLabels == {"- Steps:"}

\* the lines /\n\s*-\s*Expected Result:/ ends in
StrictExpectedLabels == {"- Expected Result: Dashboard is shown"}

\* the matches of the regular expression of testCaseParser.js:26 from line
\* pos on: a title line, next the steps label, later the expected result
\* label; the result runs up to the next title line
RECURSIVE RegexTestCases(_, _)
RegexTestCases(text, pos) ==
  LET StepsAt(t) == FirstIn(text, t + 1, Lines \ {""})
      ExpectedAt(t) == FirstIn(text, StepsAt(t) + 1, StrictExpectedLabels)
      matches == {t \in pos .. Len(text) :
                    /\ text[t] \in StrictTitles
                    /\ StepsAt(t) <= Len(text)
                    /\ text[StepsAt(t)] \in StrictStepsLabels
                    /\ ExpectedAt(t) <= Len(text)}
  IN IF matches = {} THEN <<>>
     ELSE LET t == MinOf(matches)
              s == StepsAt(t)
              e == ExpectedAt(t)
              k == FirstIn(text, e + 1, StrictTitles)
              stepLines == NonEmptyLines(SubSeq(text, s + 1, e - 1))
          IN <<TestCase(StrictTitle(text[t]),
                        [n \in 1 .. Len(stepLines) |-> CleanStep(stepLines[n])],
                        Trim(<<AfterExpected(text[e])>>
                               \o SubSeq(text, e + 1, k - 1)))>>
               \o RegexTestCases(text, k)

\* the blocks extractGenericTestCases skips, testCaseParser.js:149
IntroLines == {"Here are the test cases:"}

\* /^(?:\d+\.\s*)?(?:Test Case:?\s*)?([^\n]+)/i on the first line of a block
GenericTitle(l) ==
  CASE Listed(FallbackTitled, l) -> Lookup(FallbackTitled, l)
    [] l = "Test Case 1: Valid login" -> "1: Valid login"
    [] l = "1. Title: Valid login" -> "Title: Valid login"
    [] l = "2. Title: **Locked account**" -> "Title: **Locked account**"
    [] l = "1. Open the login page" -> "Open the login page"
    [] OTHER -> l

\* testCaseParser.js:152-185, the test case of one block
GenericTestCase(block) ==
  LET x == FirstIn(block, 1, ExpectedLabels)
      expectedResult ==
        IF x > Len(block) THEN <<>>
        ELSE Trim(<<AfterExpected(block[x])>>
                    \o SubSeq(block, x + 1, Len(block)))
  IN TestCase(GenericTitle(block[1]),
              IF StepLines(block) # <<>> THEN StepLines(block)
              ELSE <<"No specific steps provided">>,
              IF expectedResult # <<>> THEN expectedResult
              ELSE <<"No specific expected result provided">>)

\* extractGenericTestCases(testCasesString): the blocks are the runs of
\* lines between empty lines
extractGenericTestCases(text) ==
  LET starts == {i \in 1 .. Len(text) :
                   text[i] # "" /\ (i = 1 \/ text[i - 1] = "")}
      NthStart(n) == CHOOSE i \in starts :
                       Cardinality({k \in starts : k < i}) = n - 1
      BlockAt(i) == SubSeq(text, i, FirstIn(text, i, {""}) - 1)
      possibleTestCaseBlocks ==
        [n \in 1 .. Cardinality(starts) |-> BlockAt(NthStart(n))]
      kept == SelectSeq(possibleTestCaseBlocks,
                        LAMBDA b : b[1] \notin IntroLines)
  IN [n \in 1 .. Len(kept) |-> GenericTestCase(kept[n])]

\* parseTestCases with the generic extraction tried before the others
parseTestCases_GenericFirst(text) ==
  IF text = <<"">> THEN <<>>
  ELSE IF extractGenericTestCases(text) # <<>>
  THEN extractGenericTestCases(text)
  ELSE IF parseMarkdownTestCases(text) # <<>>
  THEN parseMarkdownTestCases(text)
  ELSE RegexTestCases(text, 1)

\* parseTestCases(testCasesString), testCaseParser.js:10-59
parseTestCases(text) ==
  IF text = <<"">> THEN <<>>
  ELSE IF parseMarkdownTestCases(text) # <<>>
  THEN parseMarkdownTestCases(text)
  ELSE IF RegexTestCases(text, 1) # <<>>
  THEN RegexTestCases(text, 1)
  ELSE extractGenericTestCases(text)

(***************************************************************************)
(* The parser on its own: parseTestCases is called once, with any text.    *)
(***************************************************************************)
ParserInit ==
  /\ InitWith(JobIds)
  /\ parsePc = "idle"
  /\ testCasesString \in Texts
  /\ testCases = <<>>
  /\ FallbackIdle
  /\ ExportIdle

ParseCall ==
  /\ parsePc = "idle"
  /\ testCases' = parseTestCases(testCasesString)
  /\ parsePc' = "returned"
  /\ UNCHANGED <<testCasesString, fallbackVars, exportVars,
                 now, store, storeFaults, startVars, pollVars, taskVars>>

ParserNext == ParseCall

ParserSpec == ParserInit /\ [][ParserNext]_vars

(***************************************************************************)
(* The fallback generator on its own: generateFallbackTestCases is called  *)
(* once, with any payload, and parseTestCases is applied to the text it    *)
(* returns.                                                                *)
(***************************************************************************)
FallbackInit ==
  /\ InitWith(JobIds)
  /\ ParserIdle
  /\ fallbackPayload \in FallbackPayloads
  /\ fallbackCases = <<>>
  /\ ExportIdle

FallbackCall ==
  /\ parsePc = "idle"
  /\ fallbackCases' = FallbackTestCases(fallbackPayload)
  /\ testCasesString' = FallbackText(fallbackPayload)
  /\ parsePc' = "generated"
  /\ UNCHANGED <<testCases, fallbackPayload, exportVars,
                 now, store, storeFaults, startVars, pollVars, taskVars>>

ParseFallback ==
  /\ parsePc = "generated"
  /\ testCases' = parseTestCases(testCasesString)
  /\ parsePc' = "returned"
  /\ UNCHANGED <<testCasesString, fallbackVars, exportVars,
                 now, store, storeFaults, startVars, pollVars, taskVars>>

FallbackNext == FallbackCall \/ ParseFallback

FallbackSpec == FallbackInit /\ [][FallbackNext]_vars

(***************************************************************************)
(* Rendering: exportTestCases and formatTestCases of testCaseParser.js and *)
(* the resolver exportTestCases of index.js.                               *)
(*                                                                         *)
(* A string whose characters matter is the sequence of its characters; a   *)
(* rendered text is a sequence of tokens: the pieces of the templates, one *)
(* token each, and the characters of the content, one token each.  So '<'  *)
(* and '>' are tokens of a rendered text only where they come from the     *)
(* content.                                                                *)
(***************************************************************************)
MaxChars == 2     \* a bare string has at most MaxChars characters
MaxItems == 1     \* a test case has at most MaxItems steps and results

Chars == {"a", "&", "<", ">", "\"", "'", "{", "}", "[", "]"}

\* the bare strings handed to exportTestCases
BareStrings == UNION {[1 .. n -> Chars] : n \in 0 .. MaxChars}

\* the texts of the fields of a test case
FieldTexts == {<<>>, <<"a">>, <<"<", "a", ">", "&", "\"", "'">>}

ItemLists == UNION {[1 .. n -> FieldTexts] : n \in 0 .. MaxItems}

Optional(S) == {Absent} \cup {{x} : x \in S}

\* the test cases parseTestCases emits: title, steps, expectedResult
ParsedRecords ==
  [title : FieldTexts, description : {Absent}, steps : {{s} : s \in ItemLists},
   expectedResult : {{t} : t \in FieldTexts}, expected_results : {Absent}]

\* the test cases of the backend's JSON: title, description, steps,
\* expected_results
BackendRecords ==
  [title : FieldTexts, description : Optional(FieldTexts \ {<<>>}),
   steps : Optional(ItemLists), expectedResult : {Absent},
   expected_results : Optional(ItemLists)]

RecordLists(records) ==
  {<<>>} \cup {<<tc>> : tc \in records}

\* the values handed to exportTestCases as testCases: nothing, a string, an
\* array of test cases, an object with a test_cases array
ExportValues ==
  {<<"undefined">>}
    \cup {<<"string", s>> : s \in BareStrings}
    \cup {<<"array", l>> : l \in RecordLists(ParsedRecords \cup BackendRecords)}
    \cup {<<"array", <<tc, tc>>>> : tc \in ParsedRecords}
    \cup {<<"object", l>> : l \in RecordLists(BackendRecords)}

\* the character U+0060, which no string of this module can hold
Backtick == "(backtick)"

RECURSIVE Flatten(_)
Flatten(ss) == IF ss = <<>> THEN <<>> ELSE Head(ss) \o Flatten(Tail(ss))

\* text.replace(/c/g, by)
ReplaceAll(text, c, by) ==
  Flatten([i \in 1 .. Len(text) |-> IF text[i] = c THEN by ELSE <<text[i]>>])

\* escapeHtml(text) of a string, testCaseParser.js:409-420
escapeHtml(text) ==
  LET amp == ReplaceAll(text, "&", <<"&", "a", "m", "p", ";">>)
      lt == ReplaceAll(amp, "<", <<"&", "l", "t", ";">>)
      gt == ReplaceAll(lt, ">", <<"&", "g", "t", ";">>)
      quot == ReplaceAll(gt, "\"", <<"&", "q", "u", "o", "t", ";">>)
  IN ReplaceAll(quot, "'", <<"&", "#", "0", "3", "9", ";">>)

\* array.map(f).join(separator), f giving the tokens of element n
MapJoin(array, F(_), separator) ==
  Flatten([n \in 1 .. Len(array) |->
             (IF n = 1 THEN <<>> ELSE <<separator>>) \o F(n)])

\* tc.title || 'Untitled'
TitleOf(tc) == IF tc.title = <<>> THEN <<"Untitled">> ELSE tc.title

\* the value of an optional field that is present
ValueOf(field) == CHOOSE v \in field : TRUE

\* formatAsMarkdown of an array, testCaseParser.js:282-307
MarkdownOfArray(array) ==
  LET Steps(tc) ==
        LET steps == ValueOf(tc.steps)
        IN <<"### Steps:\n">>
             \o Flatten([i \in 1 .. Len(steps) |->
                           <<ToString(i) \o ". ">> \o steps[i] \o <<"\n">>])
             \o <<"\n">>
      Results(tc) ==
        LET results == ValueOf(tc.expected_results)
        IN <<"### Expected Results:\n">>
             \o Flatten([i \in 1 .. Len(results) |->
                           <<"- ">> \o results[i] \o <<"\n">>])
      Markdown(n) ==
        LET tc == array[n]
        IN <<"## Test Case " \o ToString(n) \o ": ">> \o TitleOf(tc)
             \o <<"\n\n">>
             \o (IF tc.description = Absent THEN <<>>
                 ELSE <<"**Description:** ">> \o ValueOf(tc.description)
                        \o <<"\n\n">>)
             \o (IF tc.steps = Absent THEN <<>> ELSE Steps(tc))
             \o (IF tc.expected_results = Absent THEN <<>> ELSE Results(tc))
  IN MapJoin(array, Markdown, "\n\n")

\* formatAsMarkdown(testCases), testCaseParser.js:276-315
formatAsMarkdown(value) ==
  CASE value[1] = "string" -> value[2]
    [] value[1] \in {"array", "object"} -> MarkdownOfArray(value[2])
    [] OTHER -> <<Backtick \o Backtick \o Backtick \o "json\n">> \o value[2]
                  \o <<"\n" \o Backtick \o Backtick \o Backtick>>

\* formatAsJira of an array, testCaseParser.js:326-351
JiraOfArray(array) ==
  LET Steps(tc) ==
        LET steps == ValueOf(tc.steps)
        IN <<"h3. Steps:\n">>
             \o Flatten([i \in 1 .. Len(steps) |->
                           <<"# ">> \o steps[i] \o <<"\n">>])
             \o <<"\n">>
      Results(tc) ==
        LET results == ValueOf(tc.expected_results)
        IN <<"h3. Expected Results:\n">>
             \o Flatten([i \in 1 .. Len(results) |->
                           <<"* ">> \o results[i] \o <<"\n">>])
      Jira(n) ==
        LET tc == array[n]
        IN <<"h2. Test Case " \o ToString(n) \o ": ">> \o TitleOf(tc)
             \o <<"\n\n">>
             \o (IF tc.description = Absent THEN <<>>
                 ELSE <<"*Description:* ">> \o ValueOf(tc.description)
                        \o <<"\n\n">>)
             \o (IF tc.steps = Absent THEN <<>> ELSE Steps(tc))
             \o (IF tc.expected_results = Absent THEN <<>> ELSE Results(tc))
  IN MapJoin(array, Jira, "\n\n")

\* formatAsJira(testCases), testCaseParser.js:320-359
formatAsJira(value) ==
  CASE value[1] = "string" -> value[2]
    [] value[1] \in {"array", "object"} -> JiraOfArray(value[2])
    [] OTHER -> <<"{code:json}\n">> \o value[2] \o <<"\n{code}">>

\* formatAsHtml of an array, testCaseParser.js:370-396
HtmlOfArray(array) ==
  LET Steps(tc) ==
        LET steps == ValueOf(tc.steps)
        IN <<"<h3>Steps:</h3>\n<ol>">>
             \o Flatten([i \in 1 .. Len(steps) |->
                           <<"<li>">> \o escapeHtml(steps[i]) \o <<"</li>\n">>])
             \o <<"</ol>\n\n">>
      Results(tc) ==
        LET results == ValueOf(tc.expected_results)
        IN <<"<h3>Expected Results:</h3>\n<ul>">>
             \o Flatten([i \in 1 .. Len(results) |->
                           <<"<li>">> \o escapeHtml(results[i])
                             \o <<"</li>\n">>])
             \o <<"</ul>">>
      Html(n) ==
        LET tc == array[n]
        IN <<"<h2>Test Case " \o ToString(n) \o ": ">>
             \o escapeHtml(TitleOf(tc)) \o <<"</h2>\n\n">>
             \o (IF tc.description = Absent THEN <<>>
                 ELSE <<"<p><strong>Description:</strong> ">>
                        \o escapeHtml(ValueOf(tc.description))
                        \o <<"</p>\n\n">>)
             \o (IF tc.steps = Absent THEN <<>> ELSE Steps(tc))
             \o (IF tc.expected_results = Absent THEN <<>> ELSE Results(tc))
  IN MapJoin(array, Html, "\n\n")

\* formatAsHtml(testCases), testCaseParser.js:364-404
formatAsHtml(value) ==
  CASE value[1] = "string" -> <<"<pre>">> \o escapeHtml(value[2]) \o <<"</pre>">>
    [] value[1] \in {"array", "object"} -> HtmlOfArray(value[2])
    [] OTHER -> <<"<pre><code>">> \o escapeHtml(value[2])
                  \o <<"</code></pre>">>

\* JSON.parse of a string that starts with '{' or '[': of the strings of
\* Chars with up to three characters only '{}' and '[]' are JSON texts.
\* An object without test_cases is kept as its JSON.stringify text.
IsJsonText(s) == s \in {<<"{", "}">>, <<"[", "]">>}

JsonParse(s) ==
  IF s = <<"[", "]">> THEN <<"array", <<>>>> ELSE <<"other", <<"{", "}">>>>

\* testCases.trim().startsWith('{') || testCases.trim().startsWith('[');
\* no character of Chars is white space
LooksLikeJson(s) == s # <<>> /\ s[1] \in {"{", "["}

\* !testCases
NoTestCases(value) == value \in {<<"undefined">>, <<"string", <<>>>>}

ExportFormats == {"markdown", "jira", "html", "HTML", "text"}

\* format.toLowerCase()
ToLowerCase(format) == IF format = "HTML" THEN "html" ELSE format

exportTestCases_NoJson(value, format) ==
  IF NoTestCases(value) THEN <<>>
  ELSE CASE ToLowerCase(format) = "jira" -> formatAsJira(value)
         [] ToLowerCase(format) = "html" -> formatAsHtml(value)
         [] OTHER -> formatAsMarkdown(value)

\* exportTestCases(testCases, format), testCaseParser.js:241-271
exportTestCases(value, format) ==
  LET testCaseData ==
        IF value[1] = "string" /\ LooksLikeJson(value[2])
             /\ IsJsonText(value[2])
        THEN JsonParse(value[2]) ELSE value
  IN IF NoTestCases(value) THEN <<>>
     ELSE CASE ToLowerCase(format) = "jira" -> formatAsJira(testCaseData)
            [] ToLowerCase(format) = "html" -> formatAsHtml(testCaseData)
            [] OTHER -> formatAsMarkdown(testCaseData)

\* formatTestCases(testCases, format), testCaseParser.js:198-229, of an
\* array of the test cases parseTestCases emits
formatTestCases(value, format) ==
  LET array == value[2]
      NumberedList(steps) ==
        MapJoin(steps, LAMBDA i : <<"   " \o ToString(i) \o ". ">> \o steps[i],
                "\n")
      Markdown(n) ==
        <<"## " \o ToString(n) \o ". ">> \o array[n].title
          \o <<"\n\n### Test Steps:\n">>
          \o NumberedList(ValueOf(array[n].steps))
          \o <<"\n\n### Expected Result:\n">>
          \o ValueOf(array[n].expectedResult)
      Html(n) ==
        LET steps == ValueOf(array[n].steps)
        IN <<"<div class=\"test-case\">\n          <h3>" \o ToString(n) \o ". ">>
             \o array[n].title
             \o <<"</h3>\n          <h4>Test Steps:</h4>\n          <ol>">>
             \o Flatten([i \in 1 .. Len(steps) |->
                           <<"<li>">> \o steps[i] \o <<"</li>">>])
             \o <<"</ol>\n          <h4>Expected Result:</h4>\n          <p>">>
             \o ValueOf(array[n].expectedResult)
             \o <<"</p>\n        </div>">>
      Text(n) ==
        <<ToString(n) \o ". ">> \o array[n].title
          \o <<"\n   Test Steps:\n">>
          \o NumberedList(ValueOf(array[n].steps))
          \o <<"\n   Expected Result: ">>
          \o ValueOf(array[n].expectedResult)
  IN IF value = <<"undefined">> \/ array = <<>> THEN <<>>
     ELSE CASE format = "markdown" -> MapJoin(array, Markdown, "\n\n")
            [] format = "html" ->
                 Flatten([n \in 1 .. Len(array) |-> Html(n)])
            [] OTHER -> MapJoin(array, Text, "\n\n")

\* the test cases handed to the resolver: a markdown text, given by its
\* lines; a line is a heading of some level (0: no heading) whose text is
\* plain, bold, italic or code.  The text holds no '#', '*' or backtick.
MarkdownLines ==
  [heading : 0 .. 3, style : {"plain", "bold", "italic", "code"},
   text : FieldTexts \ {<<>>}]

MarkdownTexts ==
  {<<l>> : l \in MarkdownLines}
    \cup {<<l, [heading |-> 0, style |-> "plain", text |-> <<"a">>]>> :
            l \in MarkdownLines}

\* a line of a text with what stands before and after its text
Wrapped(before, line, after) ==
  (IF before = "" THEN <<>> ELSE <<before>>) \o line.text
    \o (IF after = "" THEN <<>> ELSE <<after>>)

\* the markdown text as it is handed over
MarkdownSource(text) ==
  LET Mark(l) == CASE l.style = "bold" -> "**"
                   [] l.style = "italic" -> "*"
                   [] l.style = "code" -> Backtick
                   [] OTHER -> ""
      Hashes(l) == CASE l.heading = 1 -> "# "
                     [] l.heading = 2 -> "## "
                     [] l.heading = 3 -> "### "
                     [] OTHER -> ""
  IN MapJoin(text,
             LAMBDA n : Wrapped(Hashes(text[n]) \o Mark(text[n]), text[n],
                                Mark(text[n])),
             "\n")

\* convertToJiraFormat(testCases), index.js:195-204: the text in bold
\* becomes '*text*', which the next replacement turns into '_text_'
convertToJiraFormat(text) ==
  LET Open(l) == CASE l.style = "code" -> "{{"
                   [] l.style = "plain" -> ""
                   [] OTHER -> "_"
      Close(l) == CASE l.style = "code" -> "}}"
                    [] l.style = "plain" -> ""
                    [] OTHER -> "_"
      Heading(l) == IF l.heading = 0 THEN ""
                    ELSE "h" \o ToString(l.heading) \o ". "
  IN MapJoin(text,
             LAMBDA n : Wrapped(Heading(text[n]) \o Open(text[n]), text[n],
                                Close(text[n])),
             "\n")

\* the HTML element of a line's style and of its heading
StyleTag(l) ==
  CASE l.style = "bold" -> "strong"
    [] l.style = "italic" -> "em"
    [] l.style = "code" -> "code"
    [] OTHER -> ""

\* convertToHtmlFormat(testCases), index.js:207-217
convertToHtmlFormat(text) ==
  LET Tag(name, slash) == IF name = "" THEN "" ELSE "<" \o slash \o name \o ">"
      Heading(l) == IF l.heading = 0 THEN "" ELSE "h" \o ToString(l.heading)
  IN MapJoin(text,
             LAMBDA n : Wrapped(Tag(Heading(text[n]), "")
                                  \o Tag(StyleTag(text[n]), ""),
                                text[n],
                                Tag(StyleTag(text[n]), "/")
                                  \o Tag(Heading(text[n]), "/")),
             "<br>")

\* what the resolver returns
ExportReturned(formattedTestCases) ==
  [success |-> TRUE, formattedTestCases |-> {formattedTestCases},
   error |-> Absent]

ExportFailed(message) ==
  [success |-> FALSE, formattedTestCases |-> Absent, error |-> {message}]

\* the resolver exportTestCases, index.js:134-157
ResolverExportTestCases(value, format) ==
  IF value = <<"undefined">> THEN ExportFailed("Test cases are required")
  ELSE CASE format = "jira" -> ExportReturned(convertToJiraFormat(value[2]))
         [] format = "html" -> ExportReturned(convertToHtmlFormat(value[2]))
         [] OTHER -> ExportReturned(MarkdownSource(value[2]))

(***************************************************************************)
(* The rendering functions on their own: one of them is called once.       *)
(***************************************************************************)
ParsedArrays ==
  {<<"array", l>> : l \in RecordLists(ParsedRecords)}
    \cup {<<"array", <<tc, tc>>>> : tc \in ParsedRecords}

ExportCalls ==
  [fn : {"exportTestCases"}, testCases : ExportValues, format : ExportFormats]
    \cup [fn : {"formatTestCases"},
          testCases : {<<"undefined">>} \cup ParsedArrays,
          format : {"text", "markdown", "html"}]
    \cup [fn : {"resolver"},
          testCases : {<<"undefined">>}
                        \cup {<<"markdown", t>> : t \in MarkdownTexts},
          format : {"markdown", "jira", "html"}]

ExportInit ==
  /\ InitWith(JobIds)
  /\ ParserIdle
  /\ FallbackIdle
  /\ exportPc = "idle"
  /\ exportArgs \in ExportCalls
  /\ exportResult = <<>>

ExportReturn(result) ==
  /\ exportPc = "idle"
  /\ exportResult' = result
  /\ exportPc' = "returned"
  /\ UNCHANGED <<exportArgs, parsePc, testCasesString, testCases,
                 fallbackVars, now, store, storeFaults,
                 startVars, pollVars, taskVars>>

ExportCall ==
  /\ exportArgs.fn = "exportTestCases"
  /\ ExportReturn(exportTestCases(exportArgs.testCases, exportArgs.format))

FormatCall ==
  /\ exportArgs.fn = "formatTestCases"
  /\ ExportReturn(formatTestCases(exportArgs.testCases, exportArgs.format))

ResolverExport ==
  /\ exportArgs.fn = "resolver"
  /\ ExportReturn(ResolverExportTestCases(exportArgs.testCases,
                                          exportArgs.format))

ExportNext == ExportCall \/ FormatCall \/ ResolverExport

ExportSpec == ExportInit /\ [][ExportNext]_vars

(***************************************************************************)
(* Properties.                                                             *)
(***************************************************************************)
\* the results that are the backend's own test cases
RealResults == {<<"text", BackendText>>, <<"formatted", FormattedText>>}

\* C1: once a stored record has status completed or failed, no step changes
\* its status, result, error or timedOut; the record can only be deleted.
C1_TerminalRecordIsImmutable ==
  [][\A j \in JobIds :
       store[j].status \in Terminal =>
         \/ store'[j] = NoJob
         \/ /\ store'[j].status = store[j].status
            /\ store'[j].result = store[j].result
            /\ store'[j].error = store[j].error
            /\ store'[j].timedOut = store[j].timedOut]_vars

\* C2: a record written as completed with the real generation result keeps
\* that result: the timeout fallback of a concurrent poll never replaces it.
C2_RealResultIsNeverReplaced ==
  [][\A j \in JobIds :
       (/\ store[j].status = "completed"
        /\ store[j].result \subseteq RealResults
        /\ store[j].result # Absent
        /\ store'[j] # NoJob)
       => store'[j].result = store[j].result]_vars

\* C3: a poll that reads a processing job after its timeoutAt persists the
\* job as completed with the fallback result and timedOut = true and returns
\* that view, whatever the background task does or does not do (the store
\* calls of the poll returning).
C3_PollRealizesTimeout ==
  [][/\ (/\ pollPc = "getJob"
         /\ pollPc' # "getJob"
         /\ storeFaults' = storeFaults
         /\ store[pollId].status = "processing"
         /\ now > store[pollId].timeoutAt)
        => pollPc' = "updateJob"
     /\ (/\ pollPc = "updateJob"
         /\ pollPc' = "idle"
         /\ storeFaults' = storeFaults)
        => LET fallback == generateFallbackTestCases(store[pollId].payload) IN
             /\ store'[pollId].status = "completed"
             /\ store'[pollId].result = {fallback}
             /\ store'[pollId].timedOut = {TRUE}
             /\ pollView'.status = {"completed"}
             /\ pollView'.result = {fallback}
             /\ pollView'.timedOut = {TRUE}
             /\ taskVars' = taskVars]_vars

\* a poll has completed the job by timeout while the task still waits for
\* the body of the response
C3_Witness ==
  /\ pollPc = "idle"
  /\ lastPoll.id = 1
  /\ pollView.timedOut = {TRUE}
  /\ store[1].status = "completed"
  /\ store[1].timedOut = {TRUE}
  /\ taskPc[1] = "json"

\* C4: no job stays unfinished for ever.  A pending record is written by no
\* poll, so once the background task of a job has ended, the job must not
\* be pending: it would be reported as pending by every later poll.
C4_NoJobIsLeftPending ==
  \A j \in JobIds : taskPc[j] = "done" => store[j].status # "pending"

\* the changes of a stored status the state machine allows
AllowedStatusChange(from, to) ==
  \/ from = to
  \/ from = "none" /\ to = "pending"
  \/ from = "pending" /\ to = "processing"
  \/ from = "processing" /\ to = "completed"
  \/ from \in {"pending", "processing"} /\ to = "failed"
  \/ to = "none"

\* C5: the stored status is one of pending, processing, completed, failed
\* and changes only along pending -> processing -> completed, or from a
\* non-terminal status to failed.
C5_StatusFollowsStateMachine ==
  [][\A j \in JobIds :
       /\ store'[j].status \in
            {"none", "pending", "processing", "completed", "failed"}
       /\ AllowedStatusChange(store[j].status, store'[j].status)]_vars

\* C6: getJobStatus on a terminal job returns without writing to the
\* store, and two calls in succession that read the same terminal record of
\* the same job return identical views.
C6_PollIsIdempotentOnTerminalJob ==
  [][(/\ pollPc = "getJob"
      /\ pollPc' # "getJob"
      /\ storeFaults' = storeFaults
      /\ store[pollId].status \in Terminal)
     => /\ pollPc' = "idle"
        /\ store' = store
        /\ pollView'.status = {store[pollId].status}
        /\ (lastPoll.id = pollId /\ lastPoll.job = store[pollId])
             => pollView' = pollView]_vars

\* a second call is under way on a completed job whose record the previous
\* call has read and returned, past the job's timeoutAt
C6_Witness ==
  /\ pollPc = "getJob"
  /\ pollId = 1
  /\ lastPoll.id = 1
  /\ lastPoll.job = store[1]
  /\ store[1].status = "completed"
  /\ pollView.status = {"completed"}
  /\ now > store[1].timeoutAt

\* C7: startTestCaseGenerationJob returns the job id as soon as the pending
\* record is stored: the return is enabled whatever the task or the backend
\* do, and when it returns the record is pending and the task it has
\* started stands at its first await, before any step of the generation.
C7_StartDoesNotWaitForGeneration ==
  /\ [](startPc = "storeJob" => ENABLED StartStored)
  /\ [][(startPc = "storeJob" /\ startRet'.success)
        => /\ startRet'.jobId = startId
           /\ store'[startId].status = "pending"
           /\ taskPc[startId] = "none"
           /\ taskPc'[startId] = "getJob"
           /\ genOutcome'[startId] = "none"]_vars

\* the call has returned the id of a job that is stored as pending, its
\* task not having moved yet
C7_Witness ==
  /\ startPc = "idle"
  /\ startRet.success
  /\ startRet.jobId = 1
  /\ store[1].status = "pending"
  /\ taskPc[1] = "getJob"

\* C8: when the generation call has failed and the job store has raised no
\* error, the job is never failed, and it is completed once the task ends.
C8_GenerationFailureNeverFailsJob ==
  \A j \in JobIds :
    (genOutcome[j] \in GenerationFailures /\ storeFaults = 0)
    => /\ store[j].status # "failed"
       /\ taskPc[j] \in {"cleanup", "done"} => store[j].status = "completed"

\* the task has ended after a generation call that timed out, the store
\* having raised no error
C8_Witness ==
  /\ genOutcome[1] = "timeout"
  /\ storeFaults = 0
  /\ taskPc[1] = "done"
  /\ store[1].status = "completed"

\* a write of the background task of job j returns in this step
TaskWriteReturns(j) ==
  /\ taskPc[j] \in {"setCompleted", "setFallback"}
  /\ taskPc'[j] \in {"tokenStats", "cleanup"}

\* the record of job j is completed with the fallback result, timedOut set
StoredFallback(rec) ==
  /\ rec.status = "completed"
  /\ rec.result = {generateFallbackTestCases(rec.payload)}
  /\ rec.timedOut = {TRUE}

C10_FailedOnlyOnStoreError ==
  /\ \A j \in JobIds :
       store[j].status = "failed"
       => /\ taskErr[j] = {StoreErrorMessage}
          /\ storeFaults > 0
          /\ store[j].error = {StoreErrorMessage}
  /\ (pollPc = "idle" /\ lastPoll.job.status = "failed")
     => /\ pollView.status = {"failed"}
        /\ pollView.error = lastPoll.job.error
        /\ pollView.error # Absent
        /\ ~pollView.success

\* a poll has returned the failed view of a failed job
C10_Witness ==
  /\ pollPc = "idle"
  /\ lastPoll.id = 1
  /\ lastPoll.job.status = "failed"
  /\ store[1].status = "failed"
  /\ pollView.error = {StoreErrorMessage}

\* the stages of the background task that call the job store before the
\* job has a result: testCaseApi.js:176, 184, 212, 235
TaskStoreStages == {"getJob", "setProcessing", "setCompleted", "setFallback"}

\* C11: an error raised by the job store at any stage of the background task
\* (reading the job, writing processing, writing the completed result,
\* writing the fallback result) takes the task to its failure path, and the
\* failure path stores the job as failed when its own store calls return.
C11_StoreErrorLeadsToFailed ==
  [][\A j \in JobIds :
       /\ (/\ taskPc[j] \in TaskStoreStages
           /\ taskPc'[j] # taskPc[j]
           /\ storeFaults' > storeFaults)
          => /\ taskPc'[j] = "catchGetJob"
             /\ taskErr'[j] = {StoreErrorMessage}
       /\ (/\ taskPc[j] = "setFailed"
           /\ taskPc'[j] = "done"
           /\ storeFaults' = storeFaults)
          => store'[j].status = "failed"]_vars

\* the payloads with a required field that is missing or empty
InvalidPayloads ==
  {p \in Payloads : \/ p.description \in {Undefined, ""}
                    \/ p.acceptance_criteria \in {Undefined, ""}}

\* C12: startTestCaseGenerationJob called with a payload whose description
\* or acceptance criteria is missing or empty throws, and the call writes no
\* job record, hands out no job id and starts no background task.
C12_InvalidPayloadIsRejected ==
  [][\A p \in InvalidPayloads :
       StartCall(p) =>
         /\ startRet'.threw = {"Missing required fields"}
         /\ ~startRet'.success
         /\ startPc' = "idle"
         /\ created' = created
         /\ store' = store
         /\ taskPc' = taskPc]_vars

C12_Witness ==
  /\ startRet.threw = {"Missing required fields"}
  /\ startPc = "idle"
  /\ created = 0
  /\ \A j \in JobIds : store[j] = NoJob /\ taskPc[j] = "none"

\* C13: getJobStatus called with a job id that has no record in the store
\* reports the failure 'Job not found' (success false, no status, no result)
\* and writes nothing to the store: it creates no record for that id.
C13_UnknownJobIsNotFound ==
  [][(/\ pollPc = "getJob"
      /\ pollPc' # "getJob"
      /\ storeFaults' = storeFaults
      /\ store[pollId] = NoJob)
     => /\ pollPc' = "idle"
        /\ ~pollView'.success
        /\ pollView'.error = {"Job not found"}
        /\ pollView'.status = Absent
        /\ pollView'.result = Absent
        /\ store' = store]_vars

C13_Witness ==
  /\ pollPc = "idle"
  /\ lastPoll.id = 2
  /\ pollView.error = {"Job not found"}
  /\ store[2] = NoJob
  /\ store[1] # NoJob

\* C14: a poll of the job whose id startTestCaseGenerationJob has returned,
\* made before the background task has written anything to the store,
\* returns at once with status pending or processing, without a result and
\* never as completed, however late the poll is.
C14_EarlyPollIsNeverCompleted ==
  [][(/\ pollPc = "getJob"
      /\ pollPc' # "getJob"
      /\ storeFaults' = storeFaults
      /\ startRet.success
      /\ startRet.jobId = pollId
      /\ taskPc[pollId] \in {"getJob", "setProcessing"})
     => /\ pollPc' = "idle"
        /\ pollView'.success
        /\ pollView'.status \in {{"pending"}, {"processing"}}
        /\ pollView'.result = Absent
        /\ store' = store]_vars

C14_Witness ==
  /\ pollPc = "idle"
  /\ startRet.success
  /\ lastPoll.id = startRet.jobId
  /\ pollView.status = {"pending"}
  /\ taskPc[lastPoll.id] \in {"getJob", "setProcessing"}
  /\ now > store[lastPoll.id].timeoutAt

C16_WitnessFallback ==
  /\ pollView.status = {"completed"}
  /\ pollView.timedOut = {TRUE}
  /\ \E r \in pollView.result : r[1] = "fallback"
  /\ lastPoll.job.status = "completed"

\* C18: the error raised inside cleanupOldJobs never leaves it: the step of
\* the background task that runs cleanupOldJobs ends the task without
\* entering its failure path, and the job that has just completed keeps its
\* status completed and its result.
C18_CleanupErrorIsSwallowed ==
  [][\A j \in JobIds :
       (/\ taskPc[j] = "cleanup"
        /\ taskPc'[j] # "cleanup"
        /\ ~startsWithIsBound)
       => /\ taskPc'[j] = "done"
          /\ taskErr'[j] = Absent
          /\ storeFaults' = storeFaults
          /\ store'[j] = store[j]]_vars

C18_Witness ==
  \E j \in JobIds :
    /\ ~startsWithIsBound
    /\ taskPc[j] = "done"
    /\ taskErr[j] = Absent
    /\ store[j].status = "completed"
    /\ store[j].result \subseteq RealResults
    /\ store[j].result # Absent

\* the positions of the task inside generateDirectTestCases
InGenerationCall == {"fetch", "text", "json"}

C19_WitnessTimeout ==
  \E j \in JobIds :
    /\ taskPc[j] = "setFallback"
    /\ genOutcome[j] = "timeout"
    /\ now >= store[j].startTime + CallTimeoutMs

\* C17: when the background task has run cleanupOldJobs(10) after its job
\* has completed, the store holds at most 10 job records, and every record
\* removed has a startTime not greater than that of any record kept: the
\* records kept are those with the greatest startTime.
C17_CleanupKeepsNewestJobs ==
  [][\A j \in DOMAIN store :
       (taskPc[j] = "cleanup" /\ taskPc'[j] = "done")
       => LET kept == {k \in DOMAIN store : store'[k] # NoJob}
              removed == {k \in DOMAIN store :
                            store[k] # NoJob /\ store'[k] = NoJob}
          IN /\ Cardinality(kept) <= MaxKeptJobs
             /\ \A r \in removed : \A k \in kept :
                  store[r].startTime <= store'[k].startTime]_vars

C20_FirstNonEmptyStrategyWins ==
  parsePc = "returned" =>
    LET markdown == parseMarkdownTestCases(testCasesString)
        regex == RegexTestCases(testCasesString, 1)
        generic == extractGenericTestCases(testCasesString)
    IN /\ markdown # <<>> => testCases = markdown
       /\ (markdown = <<>> /\ regex # <<>>) => testCases = regex
       /\ (markdown = <<>> /\ regex = <<>>) => testCases = generic
       /\ testCases = <<>> =>
            markdown = <<>> /\ regex = <<>> /\ generic = <<>>

\* the strict-regex strategy is used: the markdown strategy finds nothing
C20_Witness ==
  /\ parsePc = "returned"
  /\ parseMarkdownTestCases(testCasesString) = <<>>
  /\ RegexTestCases(testCasesString, 1) # <<>>
  /\ testCases = RegexTestCases(testCasesString, 1)
  /\ testCases # extractGenericTestCases(testCasesString)

\* the markdown strategy is used although the other two differ from it
C20_WitnessMarkdown ==
  /\ parsePc = "returned"
  /\ testCases = parseMarkdownTestCases(testCasesString)
  /\ testCases # <<>>
  /\ RegexTestCases(testCasesString, 1) # <<>>
  /\ RegexTestCases(testCasesString, 1) # testCases
  /\ extractGenericTestCases(testCasesString) # testCases

\* the generic strategy is used: the other two find nothing
C20_WitnessGeneric ==
  /\ parsePc = "returned"
  /\ parseMarkdownTestCases(testCasesString) = <<>>
  /\ RegexTestCases(testCasesString, 1) = <<>>
  /\ testCases = extractGenericTestCases(testCasesString)
  /\ testCases # <<>>

\* a text that is not empty and for which all three strategies find nothing
C20_WitnessNone ==
  /\ parsePc = "returned"
  /\ testCasesString # <<"">>
  /\ testCases = <<>>


\* the lines without a test-case marker: no 'Test Case', no 'Title:', no
\* steps or expected-result label, no heading, bullet, number or bold mark
PlainLines == {"", "The login page loads quickly."}

\* C21: parseTestCases returns the empty list for every text that has no
\* recognizable test-case marker, such as a single plain sentence.
C21_NoMarkerGivesEmptyList ==
  (/\ parsePc = "returned"
   /\ \A i \in 1 .. Len(testCasesString) : testCasesString[i] \in PlainLines)
    => testCases = <<>>

\* C22: generateFallbackTestCases pushes one test case and one more for
\* each acceptance criteria line its filter keeps, and parseTestCases
\* applied to the text it returns gives a list of as many test cases.
C22_FallbackParsesToSameCount ==
  (parsePc \in {"generated", "returned"} =>
     Len(fallbackCases)
       = 1 + Len(CriteriaLinesKept(fallbackPayload.acceptance_criteria)))
  /\ (parsePc = "returned" /\ fallbackCases # <<>> =>
        Len(testCases) = Len(fallbackCases))

\* the text a rendering function has returned
Rendered ==
  IF exportArgs.fn = "resolver"
  THEN (IF exportResult.success THEN ValueOf(exportResult.formattedTestCases)
        ELSE <<>>)
  ELSE exportResult

\* the call that has returned rendered in html mode
HtmlMode ==
  /\ exportPc = "returned"
  /\ ToLowerCase(exportArgs.format) = "html"

\* C23: what exportTestCases, formatTestCases and the resolver (through
\* convertToHtmlFormat) return in html mode holds no '<', '>', double quote
\* or single quote that comes from the content: every title, description,
\* step and expected result is escaped before it is inserted.
C23_HtmlOutputIsEscaped ==
  HtmlMode =>
    \A i \in 1 .. Len(Rendered) : Rendered[i] \notin {"<", ">", "\"", "'"}

\* exportTestCases has returned from a call with a bare string that is not
\* empty
BareStringExported ==
  /\ exportPc = "returned"
  /\ exportArgs.fn = "exportTestCases"
  /\ exportArgs.testCases[1] = "string"
  /\ exportArgs.testCases[2] # <<>>

\* the string is returned unchanged in markdown and jira mode, escaped and
\* wrapped in a preformatted block in html mode
PassedThrough ==
  LET s == exportArgs.testCases[2]
      mode == ToLowerCase(exportArgs.format)
  IN /\ mode \in {"markdown", "jira"} => exportResult = s
     /\ mode = "html" =>
          exportResult = <<"<pre>">> \o escapeHtml(s) \o <<"</pre>">>

\* C24 as stated: exportTestCases returns every bare string that is not
\* empty unchanged in markdown and jira mode and escaped in a preformatted
\* block in html mode, also when the string begins with '{' or '['.
C24_BareStringPassesThrough == BareStringExported => PassedThrough

\* C24, amended: this holds for every bare string that is not the JSON text
\* of an object or an array; the string '[]' is rendered as the empty list
\* of test cases, the empty text, and the string '{}' as an object that
\* is not a list of test cases, its JSON text in a code block.
C24_BareStringPassesThroughUnlessJson ==
  BareStringExported =>
    LET s == exportArgs.testCases[2]
        mode == ToLowerCase(exportArgs.format)
    IN /\ s \notin {<<"{", "}">>, <<"[", "]">>} => PassedThrough
       /\ s = <<"[", "]">> => exportResult = <<>>
       /\ s = <<"{", "}">> =>
            exportResult =
              CASE mode = "jira" -> <<"{code:json}\n", "{", "}", "\n{code}">>
                [] mode = "html" -> <<"<pre><code>", "{", "}", "</code></pre>">>
                [] OTHER -> <<Backtick \o Backtick \o Backtick \o "json\n",
                              "{", "}",
                              "\n" \o Backtick \o Backtick \o Backtick>>

\* a string that begins with '{' and is not a JSON text is passed through
C24_Witness ==
  /\ BareStringExported
  /\ exportArgs.testCases[2] = <<"{", "<">>
  /\ exportArgs.format = "html"
  /\ exportResult = <<"<pre>", "{", "&", "l", "t", ";", "</pre>">>

\* the string '{}' is parsed and rendered as an object
C24_WitnessJson ==
  /\ BareStringExported
  /\ exportArgs.testCases[2] = <<"{", "}">>
  /\ exportArgs.format = "jira"
  /\ exportResult # exportArgs.testCases[2]

\* exportTestCases has returned from a call with an array of one test case
\* whose expected result is the scalar field expectedResult, not empty
ScalarResultExported ==
  /\ exportPc = "returned"
  /\ exportArgs.fn = "exportTestCases"
  /\ exportArgs.testCases[1] = "array"
  /\ Len(exportArgs.testCases[2]) = 1
  /\ exportArgs.testCases[2][1].expected_results = Absent
  /\ exportArgs.testCases[2][1].expectedResult \notin {Absent, {<<>>}}

\* the same test case with its expected result as a list of one element
WithResultList(tc) ==
  [tc EXCEPT !.expectedResult = Absent,
             !.expected_results = {<<ValueOf(tc.expectedResult)>>}]

\* C25: exportTestCases renders a test case whose expected result is the
\* scalar expectedResult as it renders the test case whose expected_results
\* is the list of that one text, in every mode; the expected result is
\* not dropped.
C25_ScalarResultRendersAsList ==
  ScalarResultExported =>
    exportResult
      = exportTestCases(<<"array",
                          <<WithResultList(exportArgs.testCases[2][1])>>>>,
                        exportArgs.format)

\* C26: in every stored job record, result, timedOut and completionTime are
\* absent while the status is pending or processing, and completionTime is
\* present when the status is completed or failed.
C26_FieldsFollowStatus ==
  \A j \in DOMAIN store :
    /\ store[j].status \in {"pending", "processing"} =>
         /\ store[j].result = Absent
         /\ store[j].timedOut = Absent
         /\ store[j].completionTime = Absent
    /\ store[j].status \in Terminal => store[j].completionTime # Absent

\* a record is stored as processing while a poll is under way, and the task
\* is about to write its result
C26_Witness ==
  \E j \in DOMAIN store :
    /\ store[j].status = "processing"
    /\ store[j].result = Absent
    /\ taskPc[j] = "setCompleted"

\* a record is stored as failed, with its completion time
C26_WitnessFailed ==
  \E j \in DOMAIN store :
    /\ store[j].status = "failed"
    /\ store[j].completionTime # Absent

\* a record is stored as completed by the task, with result and
\* completion time
C26_WitnessCompleted ==
  \E j \in DOMAIN store :
    /\ store[j].status = "completed"
    /\ store[j].result # Absent
    /\ store[j].completionTime # Absent
    /\ taskPc[j] = "done"

\* the stages at which the background task writes the record of its job
TaskWriteStages == {"setProcessing", "setCompleted", "setFallback", "setFailed"}

\* C27: one background task is started for each job created, at its
\* creation and never again, and the record of a job is written only by
\* startTestCaseGenerationJob (the pending record of a new job id), by the
\* job's own background task and by the timeout branch of a getJobStatus
\* call for this job id; cleanup only deletes records.
C27_OneTaskAndOwnWriters ==
  [][\A j \in DOMAIN store :
       /\ (store[j] = NoJob /\ store'[j] # NoJob) =>
            taskPc[j] = "none" /\ taskPc'[j] = "getJob"
       /\ taskPc'[j] # taskPc[j] /\ taskPc'[j] = "getJob" =>
            startPc = "storeJob" /\ startId = j /\ store[j] = NoJob
       /\ taskPc[j] # "none" => taskPc'[j] # "none"
       /\ store'[j] # store[j] =>
            \/ /\ startPc = "storeJob"
               /\ startId = j
               /\ store[j] = NoJob
               /\ store'[j].status = "pending"
            \/ /\ taskPc[j] \in TaskWriteStages
               /\ taskPc'[j] # taskPc[j]
            \/ /\ pollPc = "updateJob"
               /\ pollId = j
               /\ pollJob.status = "processing"
               /\ \E t \in pollData.completionTime :
                    store'[j] = TimeoutUpdate(pollJob, t)
            \/ /\ store'[j] = NoJob
               /\ \E k \in DOMAIN store : taskPc[k] = "cleanup"]_vars

\* the three writers have written the record of one job: its task has set
\* it to processing and then to completed, and a poll that read it as
\* processing writes its timeout over it
C27_Witness ==
  /\ pollPc = "updateJob"
  /\ store[pollId].status = "completed"
  /\ taskPc[pollId] \in {"tokenStats", "cleanup", "done"}
  /\ pollData.timedOut = {TRUE}


\* C28: inside generateDirectTestCases the abort timer is armed only while
\* the fetch is pending; the request is aborted (the call raises its timeout
\* error) only when 45 seconds have passed since the timer was armed; and
\* whenever the call ends (a response returned, the canned value returned,
\* the timeout error raised) the timer is no longer armed.
C28_AbortTimerEndsWithTheCall ==
  [][\A j \in JobIds :
       /\ timer'[j] # Absent => taskPc'[j] = "fetch"
       /\ (taskPc[j] # "fetch" /\ taskPc'[j] = "fetch")
            => timer'[j] = {now + CallTimeoutMs}
       /\ (taskPc[j] \in InGenerationCall /\ taskPc'[j] \notin InGenerationCall)
            => /\ timer'[j] = Absent
               /\ genOutcome'[j] = "timeout"
                    <=> /\ taskPc[j] = "fetch"
                        /\ \E d \in timer[j] : now >= d
                        /\ taskPc'[j] = "setFallback"]_vars

\* the timer has fired, the request was aborted and the timer is cleared
C28_Witness ==
  \E j \in JobIds :
    /\ taskPc[j] = "setFallback"
    /\ genOutcome[j] = "timeout"
    /\ timer[j] = Absent
    /\ now >= CallTimeoutMs

\* a response was returned before the timer fired and the timer is cleared
C28_WitnessReturned ==
  \E j \in JobIds :
    /\ taskPc[j] = "setCompleted"
    /\ genOutcome[j] = "json_text"
    /\ timer[j] = Absent


C30_WritesKeepCreationFields ==
  [][\A j \in JobIds :
       /\ (store[j] = NoJob /\ store'[j] # NoJob)
            => /\ store'[j].payload \in Payloads
               /\ store'[j].startTime <= now
               /\ store'[j].timeoutAt = store'[j].startTime + JobTimeoutMs
       /\ (store[j] # NoJob /\ store'[j] # store[j])
            => /\ store'[j] # NoJob
               /\ store'[j].status \in {"processing", "completed", "failed"}
               /\ store'[j].payload = store[j].payload
               /\ store'[j].startTime = store[j].startTime
               /\ store'[j].timeoutAt = store[j].timeoutAt]_vars

\* the timeout write of getJobStatus, made after the write to processing,
\* has left the fields of creation in the record
C30_Witness ==
  \E j \in JobIds :
    /\ store[j] # NoJob
    /\ store[j].status = "completed"
    /\ store[j].timedOut = {TRUE}
    /\ lastPoll.id = j
    /\ pollView.timedOut = {TRUE}
    /\ store[j].payload.description = "User login"
    /\ store[j].startTime < now
    /\ store[j].timeoutAt = store[j].startTime + JobTimeoutMs

\* the write to failed has left the fields of creation in the record
C30_WitnessFailed ==
  \E j \in JobIds :
    /\ store[j] # NoJob
    /\ store[j].status = "failed"
    /\ store[j].payload.acceptance_criteria = "- User is redirected"
    /\ store[j].timeoutAt = store[j].startTime + JobTimeoutMs

\* the write to completed with a real result has left them too
C30_WitnessCompleted ==
  \E j \in JobIds :
    /\ store[j] # NoJob
    /\ store[j].status = "completed"
    /\ store[j].timedOut = Absent
    /\ store[j].startTime < now
    /\ store[j].timeoutAt = store[j].startTime + JobTimeoutMs

=============================================================================
